---------------------------- MODULE Spec2Model ----------------------------
(***************************************************************************)
(* Model of the rustos kernel core: the process table and scheduler        *)
(* (src/src/process.rs), the pipe registry (src/src/ipc.rs), the           *)
(* descriptor table and in-memory file store (src/src/fs.rs) and the       *)
(* system-call dispatcher (src/src/syscall.rs).                            *)
(*                                                                         *)
(* The three global singletons of the source are the three record-valued   *)
(* variables PROCESS_MANAGER, IPC_MANAGER and FILE_SYSTEM.  Every method   *)
(* of the source is a pure operator from the record(s) it borrows to the   *)
(* record(s) it leaves behind plus its return value; an action applies one *)
(* public entry point to the current state.                                *)
(*                                                                         *)
(* Byte strings (Vec<u8>, VecDeque<u8>, &[u8]) are kept run-length         *)
(* encoded, a sequence of runs [b |-> byte, n |-> count] in normal form    *)
(* (no empty run, adjacent runs differ in b), so that the real pipe        *)
(* capacity of 4096 bytes can be filled and overfilled.                    *)
(***************************************************************************)
EXTENDS Integers, Sequences, FiniteSets, TLC

VARIABLES
    PROCESS_MANAGER,  \* process.rs:157  the ProcessManager singleton
    NEXT_ADDR,        \* process.rs:142  bump pointer of allocate_memory
    ttbr0,            \* process.rs:195  page table installed by context_switch
    IPC_MANAGER,      \* ipc.rs:243      the IPCManager singleton
    FILE_SYSTEM,      \* fs.rs:251       the FileSystem singleton
    PAGES_NEXT_ADDR,  \* memory.rs:163  bump pointer of allocate_pages
    alloc_log,        \* history: address and size of each allocate_pages call
                      \* that returned, in order
    kernel,           \* "running", "halted" (sys_exit's wfe loop), "panicked"
    last,             \* the last call made: its name, arguments and result
    pid_log,          \* history: pids returned by create_process, in order
    sched_log,        \* history: results of the latest consecutive schedule() calls
    sched_started,    \* history: TRUE once schedule() has been called
    turns,            \* history: per process made Running, the turns of the
                      \* processes that were waiting then
    pipe_in,          \* history: per pipe id, the bytes accepted by writes
    pipe_out,         \* history: per pipe id, the bytes returned by reads
    closed_r,         \* history: pipe ids on which close_pipe_read was called
    closed_w,         \* history: pipe ids on which close_pipe_write was called
    fd_log,           \* history: descriptors returned by open, dup, create_pipe
    pipe_ops,         \* count of direct pipe reads and writes that moved bytes
    fs_ops,           \* count of direct fs.rs calls that succeeded (create_file,
                      \* which only ever empties one file, is not counted)
    nsys,             \* count of syscall_handler calls made
    locks,            \* per table, the kernel context holding its Mutex (0: free)
    ctx               \* per kernel context, the call it is in and how far it got

vars == <<PROCESS_MANAGER, NEXT_ADDR, ttbr0, IPC_MANAGER, FILE_SYSTEM,
          PAGES_NEXT_ADDR, alloc_log, kernel,
          last, pid_log, sched_log, sched_started, turns, pipe_in, pipe_out, closed_r,
          closed_w, fd_log, pipe_ops, fs_ops, nsys, locks, ctx>>

procVars == <<PROCESS_MANAGER, NEXT_ADDR, ttbr0, pid_log, sched_log, sched_started,
              turns>>
ipcVars  == <<IPC_MANAGER, pipe_in, pipe_out, closed_r, closed_w, pipe_ops>>
fsVars   == <<FILE_SYSTEM, fd_log, fs_ops>>
memVars  == <<PAGES_NEXT_ADDR, alloc_log>>
lockVars == <<locks, ctx>>

----------------------------------------------------------------------------
(* Bounds of the model.                                                    *)

MaxProcs == 3
MaxPipes == 1
MaxPipeOps == 3
MaxFds == 5
MaxFsOps == 3
MaxFileLen == 3
MaxSyscalls == 2
MaxAllocs == 3

----------------------------------------------------------------------------
(* Machine words.  TLC integers are 32 bits wide, so a u64 word          *)
(* is read as the signed number with the same bits: u64::MAX is -1, "-1 in *)
(* two's complement" in the source's words.  Every other number of the     *)
(* model (pids, descriptors, byte counts, addresses) stays far below 2^31,  *)
(* except in memory.rs, where a caller's size is any usize: there a word   *)
(* is kept wide, <<h, m, l>> standing for h * 2^38 + m * 2^12 + l with     *)
(* h, m < 2^26 and l < 2^12.                                               *)

\* u64::MAX, what every failing system call returns (syscall.rs:63)
U64_MAX == -1

Min(a, b) == IF a < b THEN a ELSE b

\* a number below 2^31 as a wide word, and a wide word below 2^31 as a number
Wide(n) == <<0, n \div 4096, n % 4096>>
Narrow(w) == w[2] * 4096 + w[3]

\* x + y, exact: the top limb of the sum reaches 2^26 when the sum does not
\* fit in 64 bits
WideAdd(x, y) ==
    LET l == x[3] + y[3]
        m == x[2] + y[2] + l \div 4096
    IN  <<x[1] + y[1] + m \div 2^26, m % 2^26, l % 4096>>

\* what a 64-bit register keeps of an exact sum, and whether it lost a bit
Wrap(w) == <<w[1] % 2^26, w[2], w[3]>>
Overflows(w) == w[1] >= 2^26

\* x <= y
WideLeq(x, y) ==
    \/ x[1] < y[1]
    \/ x[1] = y[1] /\ x[2] < y[2]
    \/ x[1] = y[1] /\ x[2] = y[2] /\ x[3] <= y[3]

\* Option<T> is a sequence of at most one element
None == <<>>
Some(x) == <<x>>

\* Result<T, &'static str>
Ok(v) == [ok |-> TRUE, val |-> v, err |-> ""]
Err(e) == [ok |-> FALSE, val |-> 0, err |-> e]

----------------------------------------------------------------------------
(* Run-length encoded byte strings.                                        *)

Run(b, n) == [b |-> b, n |-> n]

\* n copies of byte b
BRep(b, n) == IF n = 0 THEN <<>> ELSE <<Run(b, n)>>

RECURSIVE BLen(_)
BLen(d) == IF d = <<>> THEN 0 ELSE d[1].n + BLen(Tail(d))

\* concatenation, merging the runs that meet
BCat(x, y) ==
    IF x = <<>> THEN y
    ELSE IF y = <<>> THEN x
    ELSE IF x[Len(x)].b = y[1].b
         THEN SubSeq(x, 1, Len(x) - 1)
              \o <<Run(y[1].b, x[Len(x)].n + y[1].n)>>
              \o Tail(y)
         ELSE x \o y

\* the first k bytes (all of d when it is shorter)
RECURSIVE BTake(_, _)
BTake(d, k) ==
    IF k = 0 \/ d = <<>> THEN <<>>
    ELSE IF d[1].n >= k THEN <<Run(d[1].b, k)>>
    ELSE <<d[1]>> \o BTake(Tail(d), k - d[1].n)

\* what is left after the first k bytes
RECURSIVE BDrop(_, _)
BDrop(d, k) ==
    IF k = 0 \/ d = <<>> THEN d
    ELSE IF d[1].n > k THEN <<Run(d[1].b, d[1].n - k)>> \o Tail(d)
    ELSE BDrop(Tail(d), k - d[1].n)

\* x is an initial segment of y
BIsPrefix(x, y) == BLen(x) <= BLen(y) /\ BTake(y, BLen(x)) = x

----------------------------------------------------------------------------
(* process.rs                                                              *)

\* the entry points and the stack size the callers pass (kernel_tests.rs:58)
EntryPoints == {1073741824, 1073807360}
StackSizes == {4096}

PAGE_SIZE == 4096
NEXT_ADDR_INIT == 1342177280

\* u64::next_power_of_two
RECURSIVE PowerOfTwoFrom(_, _)
PowerOfTwoFrom(p, x) == IF p >= x THEN p ELSE PowerOfTwoFrom(2 * p, x)
next_power_of_two(x) == PowerOfTwoFrom(1, x)

\* ProcessManager::new
ProcessManager_new ==
    [processes |-> <<>>, ready_queue |-> <<>>, current_pid |-> None, next_pid |-> 1]

\* ProcessManager::allocate_memory: the address returned and the new NEXT_ADDR
allocate_memory(next_addr, size) ==
    [addr |-> next_addr, next |-> next_addr + next_power_of_two(size)]

\* processes.iter().find(|p| p.pid == pid): the index of the first match, or 0
RECURSIVE FindFrom(_, _, _)
FindFrom(procs, pid, i) ==
    IF i > Len(procs) THEN 0
    ELSE IF procs[i].pid = pid THEN i
    ELSE FindFrom(procs, pid, i + 1)

get_process(pm, pid) == FindFrom(pm.processes, pid, 1)

\* the state of the process with the given id
StateOf(pm, pid) == pm.processes[get_process(pm, pid)].state

\* the write through get_process_mut(pid).state = st
SetState(pm, pid, st) ==
    LET i == get_process(pm, pid)
    IN  [pm EXCEPT !.processes[i].state = st]

\* faulty variant of NextPid: the counter is not advanced
NextPid_Stuck(n) == n

\* next_pid += 1 (a u32: it cannot wrap within MaxProcs creations)
NextPid(n) == n + 1

\* faulty variant of ProcessManager::create_process: push_front in place of
\* push_back
ProcessManager_create_process_Front(pm, next_addr, entry_point, stack_size) ==
    LET pid == pm.next_pid
        stack == allocate_memory(next_addr, stack_size)
        table == allocate_memory(stack.next, PAGE_SIZE)
        process == [pid |-> pid, state |-> "Ready", priority |-> 128,
                    stack_pointer |-> stack.addr + stack_size,
                    page_table |-> table.addr, registers |-> 0,
                    entry_point |-> entry_point]
    IN  [pm |-> [pm EXCEPT !.next_pid = NextPid(pid),
                           !.processes = Append(@, process),
                           !.ready_queue = <<pid>> \o @],
         next_addr |-> table.next,
         ret |-> Ok(pid)]

\* ProcessManager::create_process
ProcessManager_create_process(pm, next_addr, entry_point, stack_size) ==
    LET pid == pm.next_pid
        stack == allocate_memory(next_addr, stack_size)
        table == allocate_memory(stack.next, PAGE_SIZE)
        process == [pid |-> pid, state |-> "Ready", priority |-> 128,
                    stack_pointer |-> stack.addr + stack_size,
                    page_table |-> table.addr, registers |-> 0,
                    entry_point |-> entry_point]
    IN  [pm |-> [pm EXCEPT !.next_pid = NextPid(pid),
                           !.processes = Append(@, process),
                           !.ready_queue = Append(@, pid)],
         next_addr |-> table.next,
         ret |-> Ok(pid)]

\* faulty variant of DemoteCurrent: the current process is queued again but keeps
\* its Running state
DemoteCurrent_StillRunning(pm) ==
    IF /\ pm.current_pid # None
       /\ get_process(pm, pm.current_pid[1]) # 0
       /\ pm.processes[get_process(pm, pm.current_pid[1])].state = "Running"
    THEN [pm EXCEPT !.ready_queue = Append(@, pm.current_pid[1])]
    ELSE pm

\* faulty variant of DemoteCurrent: push_front in place of push_back
DemoteCurrent_Front(pm) ==
    IF /\ pm.current_pid # None
       /\ get_process(pm, pm.current_pid[1]) # 0
       /\ pm.processes[get_process(pm, pm.current_pid[1])].state = "Running"
    THEN [SetState(pm, pm.current_pid[1], "Ready")
            EXCEPT !.ready_queue = <<pm.current_pid[1]>> \o @]
    ELSE pm

\* faulty variant of DemoteCurrent: the current process becomes Ready but is
\* not queued
DemoteCurrent_Dropped(pm) ==
    IF /\ pm.current_pid # None
       /\ get_process(pm, pm.current_pid[1]) # 0
       /\ pm.processes[get_process(pm, pm.current_pid[1])].state = "Running"
    THEN SetState(pm, pm.current_pid[1], "Ready")
    ELSE pm

\* schedule, lines 93-100: the current process, still Running, goes back to
\* Ready at the back of the queue
DemoteCurrent(pm) ==
    IF /\ pm.current_pid # None
       /\ get_process(pm, pm.current_pid[1]) # 0
       /\ pm.processes[get_process(pm, pm.current_pid[1])].state = "Running"
    THEN [SetState(pm, pm.current_pid[1], "Ready")
            EXCEPT !.ready_queue = Append(@, pm.current_pid[1])]
    ELSE pm

\* faulty variant of ProcessManager::schedule: pop_back in place of pop_front
ProcessManager_schedule_Back(pm) ==
    IF pm.ready_queue # <<>>
    THEN LET next_pid == pm.ready_queue[Len(pm.ready_queue)]
             popped == [pm EXCEPT !.ready_queue = SubSeq(@, 1, Len(@) - 1)]
             demoted == DemoteCurrent(popped)
         IN  IF get_process(demoted, next_pid) # 0
             THEN [pm |-> [SetState(demoted, next_pid, "Running")
                             EXCEPT !.current_pid = Some(next_pid)],
                   ret |-> Some(next_pid)]
             ELSE [pm |-> demoted, ret |-> demoted.current_pid]
    ELSE [pm |-> pm, ret |-> pm.current_pid]

\* faulty variant of ProcessManager::schedule: a current process that is still
\* Running keeps the processor
ProcessManager_schedule_KeepsCurrent(pm) ==
    IF pm.ready_queue # <<>> /\ DemoteCurrent(pm) = pm
    THEN LET next_pid == Head(pm.ready_queue)
             popped == [pm EXCEPT !.ready_queue = Tail(@)]
         IN  IF get_process(popped, next_pid) # 0
             THEN [pm |-> [SetState(popped, next_pid, "Running")
                             EXCEPT !.current_pid = Some(next_pid)],
                   ret |-> Some(next_pid)]
             ELSE [pm |-> popped, ret |-> popped.current_pid]
    ELSE [pm |-> pm, ret |-> pm.current_pid]

\* ProcessManager::schedule
ProcessManager_schedule(pm) ==
    IF pm.ready_queue # <<>>
    THEN LET next_pid == Head(pm.ready_queue)
             popped == [pm EXCEPT !.ready_queue = Tail(@)]
             demoted == DemoteCurrent(popped)
         IN  IF get_process(demoted, next_pid) # 0
             THEN [pm |-> [SetState(demoted, next_pid, "Running")
                             EXCEPT !.current_pid = Some(next_pid)],
                   ret |-> Some(next_pid)]
             ELSE [pm |-> demoted, ret |-> demoted.current_pid]
    ELSE [pm |-> pm, ret |-> pm.current_pid]

\* faulty variant of Retain: the terminated id is left in the queue
Retain_Nothing(q, pid) == q

\* ready_queue.retain(|&p| p != pid)
Retain(q, pid) == SelectSeq(q, LAMBDA p : p # pid)

\* faulty variant of ProcessManager::terminate_process: an id that is not in
\* the table is accepted, and taken for the current process
ProcessManager_terminate_process_Silent(pm, pid) ==
    IF get_process(pm, pid) # 0
    THEN [pm |-> [SetState(pm, pid, "Terminated")
                    EXCEPT !.ready_queue = Retain(@, pid),
                           !.current_pid = IF @ = Some(pid) THEN None ELSE @],
          ret |-> Ok(0)]
    ELSE [pm |-> [pm EXCEPT !.current_pid = None], ret |-> Ok(0)]

\* faulty variant of ProcessManager::terminate_process: current_pid is cleared
\* whichever process it names
ProcessManager_terminate_process_ClearsCurrent(pm, pid) ==
    IF get_process(pm, pid) # 0
    THEN [pm |-> [SetState(pm, pid, "Terminated")
                    EXCEPT !.ready_queue = Retain(@, pid),
                           !.current_pid = None],
          ret |-> Ok(0)]
    ELSE [pm |-> pm, ret |-> Err("Process not found")]

\* faulty variant of ProcessManager::terminate_process: current_pid is kept
\* when the current process is terminated
ProcessManager_terminate_process_KeepsCurrent(pm, pid) ==
    IF get_process(pm, pid) # 0
    THEN [pm |-> [SetState(pm, pid, "Terminated")
                    EXCEPT !.ready_queue = Retain(@, pid)],
          ret |-> Ok(0)]
    ELSE [pm |-> pm, ret |-> Err("Process not found")]

\* ProcessManager::terminate_process
ProcessManager_terminate_process(pm, pid) ==
    IF get_process(pm, pid) # 0
    THEN [pm |-> [SetState(pm, pid, "Terminated")
                    EXCEPT !.ready_queue = Retain(@, pid),
                           !.current_pid = IF @ = Some(pid) THEN None ELSE @],
          ret |-> Ok(0)]
    ELSE [pm |-> pm, ret |-> Err("Process not found")]

\* faulty variant of process::schedule: with nothing to switch to, the current
\* process is forgotten
process_schedule_DropsCurrent(pm, tt) ==
    LET r == ProcessManager_schedule(pm)
    IN  IF pm.ready_queue = <<>>
        THEN [pm |-> [pm EXCEPT !.current_pid = None], ret |-> None, ttbr0 |-> tt]
        ELSE [pm |-> r.pm, ret |-> r.ret,
              ttbr0 |-> IF r.ret # None /\ get_process(r.pm, r.ret[1]) # 0
                        THEN r.pm.processes[get_process(r.pm, r.ret[1])].page_table
                        ELSE tt]

\* process::schedule: the manager's choice, then context_switch installs the
\* chosen process's page table
process_schedule(pm, tt) ==
    LET r == ProcessManager_schedule(pm)
    IN  [pm |-> r.pm, ret |-> r.ret,
         ttbr0 |-> IF r.ret # None /\ get_process(r.pm, r.ret[1]) # 0
                   THEN r.pm.processes[get_process(r.pm, r.ret[1])].page_table
                   ELSE tt]

\* process::terminate_current_process
terminate_current_process(pm) ==
    IF pm.current_pid # None
    THEN ProcessManager_terminate_process(pm, pm.current_pid[1])
    ELSE [pm |-> pm, ret |-> Err("No current process")]

\* faulty variant of process::sys_exec: the process is also put back to Ready
sys_exec_Resets(pm, entry_point) ==
    IF pm.current_pid # None
    THEN LET i == get_process(pm, pm.current_pid[1])
         IN  IF i # 0
             THEN [pm |-> [pm EXCEPT !.processes[i].entry_point = entry_point,
                                     !.processes[i].registers = 0,
                                     !.processes[i].state = "Ready"],
                   ret |-> Ok(0)]
             ELSE [pm |-> pm, ret |-> Err("Current process not found")]
    ELSE [pm |-> pm, ret |-> Err("No current process")]

\* process::sys_exec
sys_exec(pm, entry_point) ==
    IF pm.current_pid # None
    THEN LET i == get_process(pm, pm.current_pid[1])
         IN  IF i # 0
             THEN [pm |-> [pm EXCEPT !.processes[i].entry_point = entry_point,
                                     !.processes[i].registers = 0],
                   ret |-> Ok(0)]
             ELSE [pm |-> pm, ret |-> Err("Current process not found")]
    ELSE [pm |-> pm, ret |-> Err("No current process")]

\* faulty variant of process::sys_exit: schedule is called whether or not a
\* process was terminated
sys_exit_AlwaysSchedules(pm, tt) ==
    LET t == terminate_current_process(pm)
        s == process_schedule(t.pm, tt)
    IN  [pm |-> s.pm, ttbr0 |-> s.ttbr0, terminated |-> t.ret.ok]

\* process::sys_exit: terminate the current process and, if that succeeded,
\* schedule; it then spins in wfe and never returns
sys_exit(pm, tt) ==
    LET t == terminate_current_process(pm)
    IN  IF t.ret.ok
        THEN LET s == process_schedule(t.pm, tt)
             IN  [pm |-> s.pm, ttbr0 |-> s.ttbr0, terminated |-> TRUE]
        ELSE [pm |-> pm, ttbr0 |-> tt, terminated |-> FALSE]

\* process::get_current_pid
get_current_pid(pm) == pm.current_pid

----------------------------------------------------------------------------
(* ipc.rs                                                                  *)

PIPE_BUFFER_SIZE == 4096

\* Pipe::new
Pipe_new(id) ==
    [id |-> id, buffer |-> <<>>, read_closed |-> FALSE, write_closed |-> FALSE,
     readers |-> 0, writers |-> 0]

\* Pipe::add_reader, Pipe::add_writer
add_reader(pipe) == [pipe EXCEPT !.readers = @ + 1]
add_writer(pipe) == [pipe EXCEPT !.writers = @ + 1]

\* faulty variant of PopFront: the bytes are copied out but stay in the buffer
PopFront_Peek(buffer, k) == [out |-> BTake(buffer, k), rest |-> buffer]

\* the loop of Pipe::read, lines 46-48: pop_front bytes_to_read times into buf
PopFront(buffer, k) == [out |-> BTake(buffer, k), rest |-> BDrop(buffer, k)]

\* Pipe::read into a caller buffer of n bytes
Pipe_read(pipe, n) ==
    IF pipe.read_closed
    THEN [pipe |-> pipe, ret |-> Err("Pipe read end closed"), out |-> <<>>]
    ELSE LET bytes_to_read == Min(n, BLen(pipe.buffer))
         IN  IF bytes_to_read = 0
             THEN IF pipe.writers = 0
                  THEN [pipe |-> pipe, ret |-> Ok(0), out |-> <<>>]
                  ELSE [pipe |-> pipe, ret |-> Err("Would block"), out |-> <<>>]
             ELSE LET p == PopFront(pipe.buffer, bytes_to_read)
                  IN  [pipe |-> [pipe EXCEPT !.buffer = p.rest],
                       ret |-> Ok(bytes_to_read), out |-> p.out]

\* faulty variant of BytesToWrite: the free space is not taken into account
BytesToWrite_All(len, available_space) == len

\* Pipe::write, line 67: how many of the len bytes offered are taken
BytesToWrite(len, available_space) == Min(len, available_space)

\* faulty variant of PushBack: push_front of the block in place of push_back
PushBack_Front(buffer, buf, k) == BCat(BTake(buf, k), buffer)

\* the loop of Pipe::write, lines 69-71: push_back the first k bytes of buf
PushBack(buffer, buf, k) == BCat(buffer, BTake(buf, k))

\* faulty variant of Pipe_write: the closed flag and the reader count are
\* not looked at
Pipe_write_Unchecked(pipe, buf) ==
    LET k == Min(BLen(buf), PIPE_BUFFER_SIZE - BLen(pipe.buffer))
    IN  [pipe |-> [pipe EXCEPT !.buffer = BCat(@, BTake(buf, k))], ret |-> Ok(k)]

\* Pipe::write
Pipe_write(pipe, buf) ==
    IF pipe.write_closed
    THEN [pipe |-> pipe, ret |-> Err("Pipe write end closed")]
    ELSE IF pipe.readers = 0
    THEN [pipe |-> pipe, ret |-> Err("Broken pipe")]
    ELSE LET available_space == PIPE_BUFFER_SIZE - BLen(pipe.buffer)
         IN  IF available_space = 0
             THEN [pipe |-> pipe, ret |-> Err("Would block")]
             ELSE LET bytes_to_write == BytesToWrite(BLen(buf), available_space)
                  IN  [pipe |-> [pipe EXCEPT
                                   !.buffer = PushBack(@, buf, bytes_to_write)],
                       ret |-> Ok(bytes_to_write)]

\* faulty variant of Pipe::close_read: the reader is counted out but the end
\* is not marked closed
Pipe_close_read_CountOnly(pipe) ==
    [pipe EXCEPT !.readers = IF @ > 0 THEN @ - 1 ELSE @]

\* Pipe::close_read, Pipe::close_write
Pipe_close_read(pipe) ==
    [pipe EXCEPT !.read_closed = TRUE,
                 !.readers = IF @ > 0 THEN @ - 1 ELSE @]

\* faulty variant of Pipe::close_write: the writer count is not decremented
Pipe_close_write_KeepsWriter(pipe) == [pipe EXCEPT !.write_closed = TRUE]

\* Pipe::close_write
Pipe_close_write(pipe) ==
    [pipe EXCEPT !.write_closed = TRUE,
                 !.writers = IF @ > 0 THEN @ - 1 ELSE @]

\* IPCManager::new
IPCManager_new == [pipes |-> <<>>, next_pipe_id |-> 1]

\* BTreeMap::insert, BTreeMap::remove on a map kept as a function
MapInsert(m, k, v) == [x \in DOMAIN m \cup {k} |-> IF x = k THEN v ELSE m[x]]
MapRemove(m, k) == [x \in DOMAIN m \ {k} |-> m[x]]

\* IPCManager::read_pipe
IPCManager_read_pipe(ipc, pipe_id, n) ==
    IF pipe_id \notin DOMAIN ipc.pipes
    THEN [ipc |-> ipc, ret |-> Err("Invalid pipe"), out |-> <<>>]
    ELSE LET r == Pipe_read(ipc.pipes[pipe_id], n)
         IN  [ipc |-> [ipc EXCEPT !.pipes[pipe_id] = r.pipe],
              ret |-> r.ret, out |-> r.out]

\* IPCManager::write_pipe
IPCManager_write_pipe(ipc, pipe_id, buf) ==
    IF pipe_id \notin DOMAIN ipc.pipes
    THEN [ipc |-> ipc, ret |-> Err("Invalid pipe")]
    ELSE LET r == Pipe_write(ipc.pipes[pipe_id], buf)
         IN  [ipc |-> [ipc EXCEPT !.pipes[pipe_id] = r.pipe], ret |-> r.ret]

\* faulty variant of BothClosed: || in place of &&
BothClosed_Either(pipe) == pipe.read_closed \/ pipe.write_closed

\* lines 141 and 153: the test that decides the removal of the entry
BothClosed(pipe) == pipe.read_closed /\ pipe.write_closed

\* IPCManager::close_pipe_read
IPCManager_close_pipe_read(ipc, pipe_id) ==
    IF pipe_id \notin DOMAIN ipc.pipes
    THEN [ipc |-> ipc, ret |-> Err("Invalid pipe")]
    ELSE LET pipe == Pipe_close_read(ipc.pipes[pipe_id])
         IN  [ipc |-> [ipc EXCEPT !.pipes = IF BothClosed(pipe)
                                             THEN MapRemove(@, pipe_id)
                                             ELSE MapInsert(@, pipe_id, pipe)],
              ret |-> Ok(0)]

\* faulty variant of IPCManager::close_pipe_write: the entry is never removed
IPCManager_close_pipe_write_Keeps(ipc, pipe_id) ==
    IF pipe_id \notin DOMAIN ipc.pipes
    THEN [ipc |-> ipc, ret |-> Err("Invalid pipe")]
    ELSE [ipc |-> [ipc EXCEPT !.pipes[pipe_id] = Pipe_close_write(@)],
          ret |-> Ok(0)]

\* IPCManager::close_pipe_write
IPCManager_close_pipe_write(ipc, pipe_id) ==
    IF pipe_id \notin DOMAIN ipc.pipes
    THEN [ipc |-> ipc, ret |-> Err("Invalid pipe")]
    ELSE LET pipe == Pipe_close_write(ipc.pipes[pipe_id])
         IN  [ipc |-> [ipc EXCEPT !.pipes = IF BothClosed(pipe)
                                             THEN MapRemove(@, pipe_id)
                                             ELSE MapInsert(@, pipe_id, pipe)],
              ret |-> Ok(0)]

----------------------------------------------------------------------------
(* fs.rs                                                                   *)

O_RDONLY == 0
O_WRONLY == 1
O_RDWR == 2
O_CREAT == 64
O_EXCL == 128
O_TRUNC == 512
O_APPEND == 1024
O_NONBLOCK == 2048

\* the bit f (a power of two) of flags, or 0
BitOf(flags, f) == IF (flags \div f) % 2 = 1 THEN f ELSE 0

\* OpenFlags::from_bits(flags).is_some(): no bit outside the declared ones
from_bits_ok(flags) ==
    /\ flags >= 0
    /\ flags = BitOf(flags, O_WRONLY) + BitOf(flags, O_RDWR) + BitOf(flags, O_CREAT)
               + BitOf(flags, O_EXCL) + BitOf(flags, O_TRUNC)
               + BitOf(flags, O_APPEND) + BitOf(flags, O_NONBLOCK)

\* OpenFlags::contains for a one-bit flag
contains(flags, f) == BitOf(flags, f) = f

\* FileType, one record shape for its three variants
Regular(path) == [kind |-> "Regular", path |-> path, pipe_id |-> 0, dev |-> ""]
PipeRead(id)  == [kind |-> "PipeRead", path |-> "", pipe_id |-> id, dev |-> ""]
PipeWrite(id) == [kind |-> "PipeWrite", path |-> "", pipe_id |-> id, dev |-> ""]
Device(dev)   == [kind |-> "Device", path |-> "", pipe_id |-> 0, dev |-> dev]

FileDescriptor(fd, file_type, offset, flags) ==
    [fd |-> fd, file_type |-> file_type, offset |-> offset, flags |-> flags]

\* FileSystem::new
FileSystem_new ==
    [open_files |-> (0 :> FileDescriptor(0, Device("Stdin"), 0, O_RDONLY))
                    @@ (1 :> FileDescriptor(1, Device("Stdout"), 0, O_WRONLY))
                    @@ (2 :> FileDescriptor(2, Device("Stderr"), 0, O_WRONLY)),
     next_fd |-> 3,
     files |-> <<>>]

\* faulty variant of FileSystem::open: the descriptor is bound before the
\* file is looked up
FileSystem_open_BindsFirst(fs, path, flags) ==
    IF ~from_bits_ok(flags)
    THEN [fs |-> fs, ret |-> Err("Invalid flags")]
    ELSE LET fd == fs.next_fd
             fs1 == [fs EXCEPT !.next_fd = @ + 1,
                               !.open_files = MapInsert(@, fd,
                                   FileDescriptor(fd, IF path = "/dev/null"
                                                      THEN Device("Null")
                                                      ELSE Regular(path), 0, flags))]
         IN  IF path = "/dev/null"
             THEN [fs |-> fs1, ret |-> Ok(fd)]
             ELSE LET fs2 == IF contains(flags, O_CREAT) /\ path \notin DOMAIN fs1.files
                             THEN [fs1 EXCEPT !.files = MapInsert(@, path, <<>>)]
                             ELSE fs1
                  IN  IF path \notin DOMAIN fs2.files /\ ~contains(flags, O_CREAT)
                      THEN [fs |-> fs2, ret |-> Err("File not found")]
                      ELSE [fs |-> fs2, ret |-> Ok(fd)]

\* FileSystem::open
FileSystem_open(fs, path, flags) ==
    IF ~from_bits_ok(flags)
    THEN [fs |-> fs, ret |-> Err("Invalid flags")]
    ELSE LET fd == fs.next_fd
             fs1 == [fs EXCEPT !.next_fd = @ + 1]
         IN  IF path = "/dev/null"
             THEN [fs |-> [fs1 EXCEPT !.open_files = MapInsert(@, fd,
                              FileDescriptor(fd, Device("Null"), 0, flags))],
                   ret |-> Ok(fd)]
             ELSE LET fs2 == IF contains(flags, O_CREAT) /\ path \notin DOMAIN fs1.files
                             THEN [fs1 EXCEPT !.files = MapInsert(@, path, <<>>)]
                             ELSE fs1
                  IN  IF path \notin DOMAIN fs2.files /\ ~contains(flags, O_CREAT)
                      THEN [fs |-> fs2, ret |-> Err("File not found")]
                      ELSE [fs |-> [fs2 EXCEPT !.open_files = MapInsert(@, fd,
                                       FileDescriptor(fd, Regular(path), 0, flags))],
                            ret |-> Ok(fd)]

\* faulty variant of FileSystem::close: a descriptor that is not bound is
\* closed without an error
FileSystem_close_AlwaysOk(fs, fd) ==
    [fs |-> [fs EXCEPT !.open_files = MapRemove(@, fd)], ret |-> Ok(0)]

\* FileSystem::close
FileSystem_close(fs, fd) ==
    IF fd \in DOMAIN fs.open_files
    THEN [fs |-> [fs EXCEPT !.open_files = MapRemove(@, fd)], ret |-> Ok(0)]
    ELSE [fs |-> fs, ret |-> Err("Invalid file descriptor")]

\* FileSystem::read into a caller buffer of n bytes.  checks: the build traps
\* arithmetic overflow (a debug build); otherwise usize subtraction wraps.
\* panic: the call does not return, the panic handler spins.
FileSystem_read(fs, ipc, fd, n, checks) ==
    LET done(f, i, r, o) == [fs |-> f, ipc |-> i, ret |-> r, out |-> o, panic |-> FALSE]
        panicked == [fs |-> fs, ipc |-> ipc, ret |-> Err("panic"), out |-> <<>>,
                     panic |-> TRUE]
    IN  IF fd \notin DOMAIN fs.open_files
        THEN done(fs, ipc, Err("Invalid file descriptor"), <<>>)
        ELSE LET descriptor == fs.open_files[fd]
                 ft == descriptor.file_type
             IN  CASE ft.kind = "Regular" ->
                      IF ft.path \notin DOMAIN fs.files
                      THEN done(fs, ipc, Err("File not found"), <<>>)
                      ELSE LET file_data == fs.files[ft.path]
                               len == BLen(file_data)
                           IN  IF descriptor.offset > len
                               \* file_data.len() - descriptor.offset underflows
                               THEN IF checks THEN panicked
                                    ELSE IF n = 0
                                    THEN done(fs, ipc, Ok(0), <<>>)
                                    \* the slice at line 141 starts past the end
                                    ELSE panicked
                               ELSE LET bytes_to_read == Min(n, len - descriptor.offset)
                                    IN  IF bytes_to_read = 0
                                        THEN done(fs, ipc, Ok(0), <<>>)
                                        ELSE done(
                                          [fs EXCEPT !.open_files[fd].offset =
                                                        @ + bytes_to_read],
                                          ipc, Ok(bytes_to_read),
                                          BTake(BDrop(file_data, descriptor.offset),
                                                bytes_to_read))
                   [] ft.kind = "Device" /\ ft.dev \in {"Stdin", "Null"} ->
                      done(fs, ipc, Ok(0), <<>>)
                   [] ft.kind = "PipeRead" ->
                      LET r == IPCManager_read_pipe(ipc, ft.pipe_id, n)
                      IN  done(fs, r.ipc, r.ret, r.out)
                   [] OTHER ->
                      done(fs, ipc, Err("Cannot read from this file descriptor"), <<>>)

\* faulty variant of WriteAt: the file is grown with bytes that are not zero
WriteAt_NoZero(file_data, offset, buf) ==
    LET n == BLen(buf)
        len == BLen(file_data)
        resized == IF offset + n > len
                   THEN BCat(file_data, BRep(255, offset + n - len))
                   ELSE file_data
    IN  BCat(BCat(BTake(resized, offset), buf), BDrop(resized, offset + n))

\* lines 172-176: the file after buf is copied in at offset, grown with zeros
\* when it is too short
WriteAt(file_data, offset, buf) ==
    LET n == BLen(buf)
        len == BLen(file_data)
        resized == IF offset + n > len
                   THEN BCat(file_data, BRep(0, offset + n - len))
                   ELSE file_data
    IN  BCat(BCat(BTake(resized, offset), buf), BDrop(resized, offset + n))

\* faulty variant of FileSystem::write: the end of the pipe a descriptor is
\* bound to is not looked at
FileSystem_write_AnyEnd(fs, ipc, fd, buf) ==
    LET done(f, i, r) == [fs |-> f, ipc |-> i, ret |-> r]
    IN  IF fd \notin DOMAIN fs.open_files
        THEN done(fs, ipc, Err("Invalid file descriptor"))
        ELSE LET descriptor == fs.open_files[fd]
                 ft == descriptor.file_type
             IN  CASE ft.kind = "Regular" ->
                      IF ft.path \notin DOMAIN fs.files
                      THEN done(fs, ipc, Err("File not found"))
                      ELSE IF contains(descriptor.flags, O_APPEND)
                      THEN done([fs EXCEPT !.files[ft.path] = BCat(@, buf)],
                                ipc, Ok(BLen(buf)))
                      ELSE done([fs EXCEPT
                                   !.files[ft.path] = WriteAt(@, descriptor.offset, buf),
                                   !.open_files[fd].offset = @ + BLen(buf)],
                                ipc, Ok(BLen(buf)))
                   [] ft.kind = "Device" /\ ft.dev \in {"Stdout", "Stderr", "Null"} ->
                      done(fs, ipc, Ok(BLen(buf)))
                   [] ft.kind \in {"PipeWrite", "PipeRead"} ->
                      LET r == IPCManager_write_pipe(ipc, ft.pipe_id, buf)
                      IN  done(fs, r.ipc, r.ret)
                   [] OTHER ->
                      done(fs, ipc, Err("Cannot write to this file descriptor"))

\* FileSystem::write
FileSystem_write(fs, ipc, fd, buf) ==
    LET done(f, i, r) == [fs |-> f, ipc |-> i, ret |-> r]
    IN  IF fd \notin DOMAIN fs.open_files
        THEN done(fs, ipc, Err("Invalid file descriptor"))
        ELSE LET descriptor == fs.open_files[fd]
                 ft == descriptor.file_type
             IN  CASE ft.kind = "Regular" ->
                      IF ft.path \notin DOMAIN fs.files
                      THEN done(fs, ipc, Err("File not found"))
                      ELSE IF contains(descriptor.flags, O_APPEND)
                      THEN done([fs EXCEPT !.files[ft.path] = BCat(@, buf)],
                                ipc, Ok(BLen(buf)))
                      ELSE done([fs EXCEPT
                                   !.files[ft.path] = WriteAt(@, descriptor.offset, buf),
                                   !.open_files[fd].offset = @ + BLen(buf)],
                                ipc, Ok(BLen(buf)))
                   [] ft.kind = "Device" /\ ft.dev \in {"Stdout", "Stderr", "Null"} ->
                      done(fs, ipc, Ok(BLen(buf)))
                   [] ft.kind = "PipeWrite" ->
                      LET r == IPCManager_write_pipe(ipc, ft.pipe_id, buf)
                      IN  done(fs, r.ipc, r.ret)
                   [] OTHER ->
                      done(fs, ipc, Err("Cannot write to this file descriptor"))

\* faulty variant of FileSystem::duplicate_fd: the copy starts at the
\* beginning of the file
FileSystem_duplicate_fd_Rewinds(fs, fd) ==
    IF fd \notin DOMAIN fs.open_files
    THEN [fs |-> fs, ret |-> Err("Invalid file descriptor")]
    ELSE LET new_fd == fs.next_fd
         IN  [fs |-> [fs EXCEPT !.next_fd = @ + 1,
                                !.open_files = MapInsert(@, new_fd,
                                    [fs.open_files[fd] EXCEPT !.fd = new_fd,
                                                              !.offset = 0])],
              ret |-> Ok(new_fd)]

\* FileSystem::duplicate_fd
FileSystem_duplicate_fd(fs, fd) ==
    IF fd \notin DOMAIN fs.open_files
    THEN [fs |-> fs, ret |-> Err("Invalid file descriptor")]
    ELSE LET new_fd == fs.next_fd
         IN  [fs |-> [fs EXCEPT !.next_fd = @ + 1,
                                !.open_files = MapInsert(@, new_fd,
                                    [fs.open_files[fd] EXCEPT !.fd = new_fd])],
              ret |-> Ok(new_fd)]

\* faulty variant of FileSystem::duplicate_fd_to: newfd is closed before oldfd
\* is looked up
FileSystem_duplicate_fd_to_ClosesFirst(fs, oldfd, newfd) ==
    IF oldfd \notin DOMAIN MapRemove(fs.open_files, newfd)
    THEN [fs |-> [fs EXCEPT !.open_files = MapRemove(@, newfd)],
          ret |-> Err("Invalid file descriptor")]
    ELSE [fs |-> [fs EXCEPT !.open_files = MapInsert(MapRemove(@, newfd), newfd,
                                [fs.open_files[oldfd] EXCEPT !.fd = newfd])],
          ret |-> Ok(newfd)]

\* FileSystem::duplicate_fd_to
FileSystem_duplicate_fd_to(fs, oldfd, newfd) ==
    IF oldfd \notin DOMAIN fs.open_files
    THEN [fs |-> fs, ret |-> Err("Invalid file descriptor")]
    ELSE [fs |-> [fs EXCEPT !.open_files = MapInsert(MapRemove(@, newfd), newfd,
                                [fs.open_files[oldfd] EXCEPT !.fd = newfd])],
          ret |-> Ok(newfd)]

\* faulty variant of DescriptorOnly: a pipe that no descriptor is bound to
\* any more is taken out of the registry
DescriptorOnly_Reaps(r, ipc) ==
    [fs |-> r.fs,
     ipc |-> [ipc EXCEPT !.pipes =
                [id \in {p \in DOMAIN ipc.pipes :
                            \E fd \in DOMAIN r.fs.open_files :
                               /\ r.fs.open_files[fd].file_type.kind
                                     \in {"PipeRead", "PipeWrite"}
                               /\ r.fs.open_files[fd].file_type.pipe_id = p}
                    |-> ipc.pipes[id]]],
     ret |-> r.ret]

\* FileSystem::close, duplicate_fd and duplicate_fd_to, whose result is r, on
\* the two tables: they write open_files and next_fd and call nothing of
\* ipc.rs, whatever the descriptors are bound to
DescriptorOnly(r, ipc) == [fs |-> r.fs, ipc |-> ipc, ret |-> r.ret]

\* FileSystem::create_pipe_fds
FileSystem_create_pipe_fds(fs, pipe_id) ==
    LET read_fd == fs.next_fd
        write_fd == fs.next_fd + 1
    IN  [fs |-> [fs EXCEPT !.next_fd = @ + 2,
                           !.open_files = MapInsert(
                               MapInsert(@, read_fd,
                                   FileDescriptor(read_fd, PipeRead(pipe_id), 0, O_RDONLY)),
                               write_fd,
                               FileDescriptor(write_fd, PipeWrite(pipe_id), 0, O_WRONLY))],
         ret |-> Ok(<<read_fd, write_fd>>)]

\* fs::remove_file
remove_file(fs, path) ==
    IF path \in DOMAIN fs.files
    THEN [fs |-> [fs EXCEPT !.files = MapRemove(@, path)], ret |-> Ok(0)]
    ELSE [fs |-> fs, ret |-> Err("File not found")]

\* fs::create_file
create_file(fs, path) ==
    [fs |-> [fs EXCEPT !.files = MapInsert(@, path, <<>>)], ret |-> Ok(0)]

\* faulty variant of IPCManager::create_pipe: add_writer is not called
IPCManager_create_pipe_NoWriter(ipc, fs) ==
    LET pipe_id == ipc.next_pipe_id
        pipe == add_reader(Pipe_new(pipe_id))
        r == FileSystem_create_pipe_fds(fs, pipe_id)
    IN  [ipc |-> [ipc EXCEPT !.next_pipe_id = @ + 1,
                             !.pipes = MapInsert(@, pipe_id, pipe)],
         fs |-> r.fs,
         ret |-> r.ret]

\* IPCManager::create_pipe, which ends in fs::create_pipe_fds
IPCManager_create_pipe(ipc, fs) ==
    LET pipe_id == ipc.next_pipe_id
        pipe == add_writer(add_reader(Pipe_new(pipe_id)))
        r == FileSystem_create_pipe_fds(fs, pipe_id)
    IN  [ipc |-> [ipc EXCEPT !.next_pipe_id = @ + 1,
                             !.pipes = MapInsert(@, pipe_id, pipe)],
         fs |-> r.fs,
         ret |-> r.ret]

----------------------------------------------------------------------------
(* memory.rs                                                               *)

PAGES_NEXT_ADDR_INIT == 1610612736

\* size rounded up to whole pages, exact: (size + 4095) / 4096 * 4096
RoundedUp(size) ==
    LET s == WideAdd(size, Wide(4095))
    IN  <<s[1], s[2], 0>>

\* memory::allocate_pages: the address returned and the new NEXT_ADDR.
\* checks: the build traps arithmetic overflow; otherwise `size + 4095`
\* (line 162) and `NEXT_ADDR += ..` (line 166) wrap.  `pages as u64 * 4096`
\* cannot overflow, pages being below 2^52.
allocate_pages(next_addr, size, checks) ==
    LET bytes == Wrap(RoundedUp(size))
        next == WideAdd(next_addr, bytes)
    IN  IF checks /\ (Overflows(RoundedUp(size)) \/ Overflows(next))
        THEN [ret |-> Err("panic"), next |-> next_addr, panic |-> TRUE]
        ELSE [ret |-> Ok(next_addr), next |-> Wrap(next), panic |-> FALSE]

\* memory::deallocate_pages
deallocate_pages(addr, size) == Ok(0)

----------------------------------------------------------------------------
(* syscall.rs                                                              *)

SYS_READ == 0
SYS_WRITE == 1
SYS_OPEN == 2
SYS_CLOSE == 3
SYS_EXIT == 60
SYS_FORK == 57
SYS_EXECVE == 59
SYS_MMAP == 9
SYS_MUNMAP == 11
SYS_GETPID == 39
SYS_PIPE == 22
SYS_DUP == 32
SYS_DUP2 == 33

KnownSyscalls ==
    {SYS_READ, SYS_WRITE, SYS_OPEN, SYS_CLOSE, SYS_EXIT, SYS_FORK, SYS_EXECVE,
     SYS_MMAP, SYS_MUNMAP, SYS_GETPID, SYS_PIPE, SYS_DUP, SYS_DUP2}

\* The kernel's tables as one value k, and what a dispatcher call leaves: the
\* tables, the word returned, the bytes stored through the caller's pointer,
\* and stop: "" (the call returns), "halted" or "panicked" (it never does).
Kernel(pm, proc_next, tt, ipc, fs, pages_next) ==
    [pm |-> pm, proc_next |-> proc_next, ttbr0 |-> tt, ipc |-> ipc, fs |-> fs,
     pages_next |-> pages_next]

Returns(k, ret, out) == [k |-> k, ret |-> ret, out |-> out, stop |-> ""]

\* the arguments of a call, by the meaning the handlers give them: buf is the
\* content of the caller's buffer, path the string at the pathname pointer
Args(fd, buf, count, path, flags, newfd, entry, length) ==
    [fd |-> fd, buf |-> buf, count |-> count, path |-> path, flags |-> flags,
     newfd |-> newfd, entry |-> entry, length |-> length]

\* Ok(v) => v as u64, Err(_) => u64::MAX
Word(ret) == IF ret.ok THEN ret.val ELSE U64_MAX

\* Ok(_) => 0, Err(_) => u64::MAX
Zero(ret) == IF ret.ok THEN 0 ELSE U64_MAX

sys_read(k, fd, count, checks) ==
    LET r == FileSystem_read(k.fs, k.ipc, fd, count, checks)
    IN  IF r.panic
        THEN [k |-> k, ret |-> U64_MAX, out |-> <<>>, stop |-> "panicked"]
        ELSE Returns([k EXCEPT !.fs = r.fs, !.ipc = r.ipc], Word(r.ret), r.out)

sys_write(k, fd, buf, count) ==
    LET r == FileSystem_write(k.fs, k.ipc, fd, BTake(buf, count))
    IN  Returns([k EXCEPT !.fs = r.fs, !.ipc = r.ipc], Word(r.ret), <<>>)

sys_open(k, path, flags) ==
    LET r == FileSystem_open(k.fs, path, flags)
    IN  Returns([k EXCEPT !.fs = r.fs], Word(r.ret), <<>>)

sys_close(k, fd) ==
    LET r == FileSystem_close(k.fs, fd)
    IN  Returns([k EXCEPT !.fs = r.fs], Zero(r.ret), <<>>)

sys_pipe(k) ==
    LET r == IPCManager_create_pipe(k.ipc, k.fs)
    IN  IF r.ret.ok
        THEN Returns([k EXCEPT !.fs = r.fs, !.ipc = r.ipc], 0, r.ret.val)
        ELSE Returns([k EXCEPT !.fs = r.fs, !.ipc = r.ipc], U64_MAX, <<>>)

sys_dup(k, fd) ==
    LET r == FileSystem_duplicate_fd(k.fs, fd)
    IN  Returns([k EXCEPT !.fs = r.fs], Word(r.ret), <<>>)

sys_dup2(k, oldfd, newfd) ==
    LET r == FileSystem_duplicate_fd_to(k.fs, oldfd, newfd)
    IN  Returns([k EXCEPT !.fs = r.fs], Word(r.ret), <<>>)

sys_mmap(k, length) ==
    LET r == allocate_pages(k.pages_next, Wide(length), TRUE)
    IN  IF r.panic
        THEN [k |-> k, ret |-> U64_MAX, out |-> <<>>, stop |-> "panicked"]
        ELSE Returns([k EXCEPT !.pages_next = r.next],
                     Word(Ok(Narrow(r.ret.val))), <<>>)

sys_munmap(k, addr, length) == Returns(k, Zero(deallocate_pages(addr, length)), <<>>)

\* process::sys_fork
sys_fork == 0

\* an unknown-number arm that closes descriptor 0 before it returns
UnknownSyscall_ClosesStdin(k, syscall_num) ==
    Returns([k EXCEPT !.fs = FileSystem_close(k.fs, 0).fs], U64_MAX, <<>>)

\* the `_` arm of syscall_handler, lines 74-77
UnknownSyscall(k, syscall_num) == Returns(k, U64_MAX, <<>>)

\* syscall_handler
syscall_handler(k, syscall_num, a, checks) ==
    CASE syscall_num = SYS_READ -> sys_read(k, a.fd, a.count, checks)
      [] syscall_num = SYS_WRITE -> sys_write(k, a.fd, a.buf, a.count)
      [] syscall_num = SYS_OPEN -> sys_open(k, a.path, a.flags)
      [] syscall_num = SYS_CLOSE -> sys_close(k, a.fd)
      [] syscall_num = SYS_EXIT ->
            LET r == sys_exit(k.pm, k.ttbr0)
            IN  [k |-> [k EXCEPT !.pm = r.pm, !.ttbr0 = r.ttbr0],
                 ret |-> 0, out |-> <<>>, stop |-> "halted"]
      [] syscall_num = SYS_FORK -> Returns(k, sys_fork, <<>>)
      [] syscall_num = SYS_EXECVE ->
            LET r == sys_exec(k.pm, a.entry)
            IN  Returns([k EXCEPT !.pm = r.pm], Zero(r.ret), <<>>)
      [] syscall_num = SYS_GETPID ->
            Returns(k, IF get_current_pid(k.pm) = None THEN 0
                       ELSE get_current_pid(k.pm)[1], <<>>)
      [] syscall_num = SYS_PIPE -> sys_pipe(k)
      [] syscall_num = SYS_DUP -> sys_dup(k, a.fd)
      [] syscall_num = SYS_DUP2 -> sys_dup2(k, a.fd, a.newfd)
      [] syscall_num = SYS_MMAP -> sys_mmap(k, a.length)
      [] syscall_num = SYS_MUNMAP -> sys_munmap(k, a.fd, a.length)
      [] OTHER -> UnknownSyscall(k, syscall_num)

----------------------------------------------------------------------------
(* The state machine.                                                      *)

\* the record of a call: its name, arguments, result, the bytes it handed
\* back, and whether every descriptor it returned was unbound before it
Call(op, arg, ret, out, fresh) ==
    [op |-> op, arg |-> arg, ret |-> ret, out |-> out, fresh |-> fresh]

\* the kernel contexts that call into the tables
Contexts == {1, 2}

\* a context outside every call
Idle == [op |-> "idle", pc |-> "idle", fd |-> 0, n |-> 0, buf |-> <<>>]

Init ==
    /\ locks = [FILE_SYSTEM |-> 0, IPC_MANAGER |-> 0]
    /\ ctx = [c \in Contexts |-> Idle]
    /\ PROCESS_MANAGER = ProcessManager_new
    /\ NEXT_ADDR = NEXT_ADDR_INIT
    /\ ttbr0 = 0
    /\ IPC_MANAGER = IPCManager_new
    /\ FILE_SYSTEM = FileSystem_new
    /\ PAGES_NEXT_ADDR = Wide(PAGES_NEXT_ADDR_INIT)
    /\ alloc_log = <<>>
    /\ kernel = "running"
    /\ last = Call("boot", <<>>, Ok(0), <<>>, TRUE)
    /\ pid_log = <<>>
    /\ sched_log = <<>>
    /\ sched_started = FALSE
    /\ turns = <<>>
    /\ pipe_in = <<>>
    /\ pipe_out = <<>>
    /\ closed_r = {}
    /\ closed_w = {}
    /\ fd_log = <<>>
    /\ pipe_ops = 0
    /\ fs_ops = 0
    /\ nsys = 0

\* the last n entries of a log
Window(log, n) ==
    IF Len(log) > n THEN SubSeq(log, Len(log) - n + 1, Len(log)) ELSE log

\* the ids a step from manager pm to manager pm2 made Running, and those
\* Terminated after it
MadeRunning(pm, pm2) ==
    {pm.processes[i].pid : i \in {j \in DOMAIN pm.processes :
        pm.processes[j].state = "Ready" /\ pm2.processes[j].state = "Running"}}
Terminated(pm2) ==
    {pm2.processes[i].pid : i \in {j \in DOMAIN pm2.processes :
        pm2.processes[j].state = "Terminated"}}

\* the turns history after a step from manager pm to manager pm2.  t[p] is
\* kept from the latest time p was made Running: for every process waiting
\* in the ready queue at that time and not terminated since, the number of
\* times it was made Running since (2 stands for two or more)
TurnsAfter(t, pm, pm2) ==
    LET now == MadeRunning(pm, pm2)
        gone == Terminated(pm2)
        kept(p) == [x \in DOMAIN t[p] \ gone |->
                      IF x \in now THEN Min(t[p][x] + 1, 2) ELSE t[p][x]]
    IN  [p \in ((DOMAIN t) \ gone) \cup now |->
            IF p \in now
            THEN [x \in {pm2.ready_queue[i] : i \in DOMAIN pm2.ready_queue} |-> 0]
            ELSE kept(p)]

\* the pipe id a descriptor is bound to with the given sense, if any
PipeOf(fs, fd, kind) ==
    IF fd \in DOMAIN fs.open_files /\ fs.open_files[fd].file_type.kind = kind
    THEN Some(fs.open_files[fd].file_type.pipe_id)
    ELSE None

\* a history after pipe id p (an Option) accepted, or handed out, bytes
Logged(log, p, bytes) ==
    IF p # None /\ p[1] \in DOMAIN log
    THEN [log EXCEPT ![p[1]] = BCat(@, bytes)]
    ELSE log

(* process.rs entry points *)

\* process::create_process, called with an entry point of the given set
CreateProcessAt(entry_points) ==
    /\ kernel = "running"
    /\ UNCHANGED lockVars
    /\ PROCESS_MANAGER.next_pid <= MaxProcs
    /\ \E entry_point \in entry_points, stack_size \in StackSizes :
          LET r == ProcessManager_create_process(PROCESS_MANAGER, NEXT_ADDR,
                                                 entry_point, stack_size)
          IN  /\ PROCESS_MANAGER' = r.pm
              /\ NEXT_ADDR' = r.next_addr
              /\ pid_log' = Append(pid_log, r.ret.val)
              /\ last' = Call("create_process", <<entry_point, stack_size>>,
                              r.ret, <<>>, TRUE)
    /\ sched_log' = <<>>
    /\ turns' = TurnsAfter(turns, PROCESS_MANAGER, PROCESS_MANAGER')
    /\ UNCHANGED <<ttbr0, sched_started, ipcVars, fsVars, memVars,
                   kernel, nsys>>

CreateProcess == CreateProcessAt(EntryPoints)

\* processes are spawned at the first entry point while the dispatcher is
\* called and while kernel_main's loop runs
Spawn == CreateProcessAt({1073741824})

\* process::schedule; unit: the caller gets (), as from the free function,
\* and not the pid the manager chose
ScheduleAs(unit) ==
    /\ kernel = "running"
    /\ UNCHANGED lockVars
    /\ LET r == process_schedule(PROCESS_MANAGER, ttbr0)
       IN  /\ PROCESS_MANAGER' = r.pm
           /\ ttbr0' = r.ttbr0
           /\ sched_log' = IF sched_started
                           THEN Window(Append(sched_log, r.ret),
                                       Len(PROCESS_MANAGER.processes))
                           ELSE <<>>
           /\ last' = Call("schedule", <<>>, IF unit THEN Ok(0) ELSE r.ret,
                           <<>>, TRUE)
    /\ sched_started' = TRUE
    /\ turns' = TurnsAfter(turns, PROCESS_MANAGER, PROCESS_MANAGER')
    /\ UNCHANGED <<NEXT_ADDR, pid_log, ipcVars, fsVars, memVars,
                   kernel, nsys>>

\* ProcessManager::schedule as its callers in the kernel see it: the pid chosen
Schedule == ScheduleAs(FALSE)

\* process::schedule as kernel_main calls it: it returns ()
Yield == ScheduleAs(TRUE)

Terminate ==
    /\ kernel = "running"
    /\ UNCHANGED lockVars
    /\ \E pid \in 1..(MaxProcs + 1) :
          LET r == ProcessManager_terminate_process(PROCESS_MANAGER, pid)
          IN  /\ PROCESS_MANAGER' = r.pm
              /\ sched_log' = IF r.ret.ok THEN <<>> ELSE sched_log
              /\ last' = Call("terminate_process", <<pid>>, r.ret, <<>>, TRUE)
    /\ turns' = TurnsAfter(turns, PROCESS_MANAGER, PROCESS_MANAGER')
    /\ UNCHANGED <<NEXT_ADDR, ttbr0, pid_log, sched_started, ipcVars, fsVars,
                   memVars, kernel, nsys>>

Exec ==
    /\ kernel = "running"
    /\ UNCHANGED lockVars
    /\ \E entry_point \in EntryPoints :
          LET r == sys_exec(PROCESS_MANAGER, entry_point)
          IN  /\ PROCESS_MANAGER' = r.pm
              /\ last' = Call("exec", <<entry_point>>, r.ret, <<>>, TRUE)
    /\ turns' = TurnsAfter(turns, PROCESS_MANAGER, PROCESS_MANAGER')
    /\ UNCHANGED <<NEXT_ADDR, ttbr0, pid_log, sched_log, sched_started, ipcVars,
                   fsVars, memVars, kernel, nsys>>

Exit ==
    /\ kernel = "running"
    /\ UNCHANGED lockVars
    /\ LET r == sys_exit(PROCESS_MANAGER, ttbr0)
       IN  /\ PROCESS_MANAGER' = r.pm
           /\ ttbr0' = r.ttbr0
           /\ sched_started' = (sched_started \/ r.terminated)
           /\ last' = Call("exit", <<>>, Ok(0), <<>>, TRUE)
    /\ sched_log' = <<>>
    /\ turns' = TurnsAfter(turns, PROCESS_MANAGER, PROCESS_MANAGER')
    /\ kernel' = "halted"
    /\ UNCHANGED <<NEXT_ADDR, pid_log, ipcVars, fsVars, memVars, nsys>>

NextProc == CreateProcess \/ Schedule \/ Terminate \/ Exec \/ Exit

SpecProc == Init /\ [][NextProc]_vars

----------------------------------------------------------------------------
(* Properties of the process table and scheduler, under SpecProc.          *)

Procs == PROCESS_MANAGER.processes

InState(st) == {i \in DOMAIN Procs : Procs[i].state = st}

Range(q) == {q[i] : i \in DOMAIN q}

\* C1: after any sequence of create_process, schedule, terminate_process,
\* exit and exec calls, at most one process of the table is Running.
C1_AtMostOneRunning == Cardinality(InState("Running")) <= 1

\* a schedule() has just moved the Running mark from one process to another,
\* beside a Terminated process
C1_Witness ==
    /\ last.op = "schedule"
    /\ Cardinality(InState("Running")) = 1
    /\ InState("Ready") # {}
    /\ InState("Terminated") # {}

\* C3: with N processes created and none terminated, the schedule() calls
\* after the first select, in every window of N consecutive calls, each of
\* the N process ids exactly once: no id repeats within N consecutive calls
\* and every call selects a process of the table.  sched_log holds the
\* results of the latest (at most N) consecutive calls.
C3_RoundRobinWindow ==
    InState("Terminated") = {} =>
        /\ \A i \in DOMAIN sched_log :
              /\ sched_log[i] # None
              /\ \E j \in DOMAIN Procs : Procs[j].pid = sched_log[i][1]
        /\ \A i, j \in DOMAIN sched_log : i # j => sched_log[i] # sched_log[j]

\* a full window of N >= 3 calls over N live processes
C3_Witness ==
    /\ InState("Terminated") = {}
    /\ Len(Procs) >= 3
    /\ Len(sched_log) = Len(Procs)

\* C4: every create_process returns an id strictly greater than every id
\* returned before it, whatever schedule and terminate calls come between;
\* so no id is issued twice, the ids of terminated processes included.
C4_PidsIncrease ==
    \A i, j \in DOMAIN pid_log : i < j => pid_log[i] < pid_log[j]

\* a process is created after an earlier one was scheduled and terminated
C4_Witness ==
    /\ last.op = "create_process"
    /\ Len(pid_log) >= 2
    /\ InState("Terminated") # {}
    /\ sched_started

\* C7: a Terminated process stays Terminated in every later state, is never
\* in the ready queue, is never the current process and is never the result
\* of schedule().
C7_TerminatedAbsorbing ==
    /\ [](\A i \in InState("Terminated") :
             /\ Procs[i].pid \notin Range(PROCESS_MANAGER.ready_queue)
             /\ PROCESS_MANAGER.current_pid # Some(Procs[i].pid)
             /\ (last.op = "schedule" => last.ret # Some(Procs[i].pid)))
    /\ [][\A i \in InState("Terminated") :
             /\ i \in DOMAIN PROCESS_MANAGER'.processes
             /\ PROCESS_MANAGER'.processes[i].pid = Procs[i].pid
             /\ PROCESS_MANAGER'.processes[i].state = "Terminated"]_vars

\* schedule() picks a process while another one, terminated while it was
\* waiting in the queue, stays in the table
C7_Witness ==
    /\ last.op = "schedule"
    /\ last.ret # None
    /\ InState("Terminated") # {}
    /\ InState("Ready") # {}

\* C17: when schedule() is called with a non-empty ready queue, the process
\* at the front of the queue becomes Running and current and its id is
\* returned; the previously current process, if still Running, becomes Ready
\* and is placed at the back of the queue, behind every process that was
\* already waiting (otherwise the queue only loses its front).
C17_ScheduleSwitches ==
    [][(last'.op = "schedule" /\ PROCESS_MANAGER.ready_queue # <<>>) =>
          LET pm == PROCESS_MANAGER
              front == Head(pm.ready_queue)
              cur == pm.current_pid
          IN  /\ last'.ret = Some(front)
              /\ PROCESS_MANAGER'.current_pid = Some(front)
              /\ StateOf(PROCESS_MANAGER', front) = "Running"
              /\ IF cur # None /\ StateOf(pm, cur[1]) = "Running"
                 THEN /\ StateOf(PROCESS_MANAGER', cur[1]) = "Ready"
                      /\ PROCESS_MANAGER'.ready_queue =
                            Append(Tail(pm.ready_queue), cur[1])
                 ELSE PROCESS_MANAGER'.ready_queue = Tail(pm.ready_queue)]_vars

\* two schedule() calls in a row: the process the first one chose is Ready
\* at the back of the queue behind another waiting process, and the process
\* the second one chose is current
C17_Witness ==
    /\ last.op = "schedule"
    /\ Len(sched_log) >= 2
    /\ Len(PROCESS_MANAGER.ready_queue) >= 2
    /\ sched_log[Len(sched_log) - 1] =
          Some(PROCESS_MANAGER.ready_queue[Len(PROCESS_MANAGER.ready_queue)])
    /\ PROCESS_MANAGER.current_pid = last.ret
    /\ last.ret # None

\* C18: when schedule() is called with an empty ready queue it returns the
\* current process id (none if there is no current process) and changes no
\* process state, not the ready queue and not the current id.
C18_ScheduleIdle ==
    [][(last'.op = "schedule" /\ PROCESS_MANAGER.ready_queue = <<>>) =>
          /\ last'.ret = PROCESS_MANAGER.current_pid
          /\ PROCESS_MANAGER' = PROCESS_MANAGER]_vars

\* two schedule() calls in a row returned the same process, and nothing is
\* waiting: the second call found the queue empty
C18_Witness ==
    /\ last.op = "schedule"
    /\ Len(sched_log) >= 2
    /\ sched_log[Len(sched_log)] = sched_log[Len(sched_log) - 1]
    /\ last.ret # None
    /\ last.ret = PROCESS_MANAGER.current_pid
    /\ PROCESS_MANAGER.ready_queue = <<>>

\* C19: under any interleaving of create_process, schedule and terminate (and
\* exec and exit), between two consecutive schedule() calls that make the
\* same process p Running, every other process that was waiting in the ready
\* queue after the first of them and is not terminated in between is made
\* Running exactly once.  turns[p] counts, from the first of the two calls on,
\* the times each such process was made Running.
C19_OneTurnEach ==
    [][\A p \in DOMAIN turns :
          p \in MadeRunning(PROCESS_MANAGER, PROCESS_MANAGER') =>
             \A x \in DOMAIN turns[p] \ Terminated(PROCESS_MANAGER') :
                turns[p][x] = 1]_vars

\* three schedule() calls in a row chose p, another process, and p again,
\* with a Terminated process in the table
C19_Witness ==
    /\ last.op = "schedule"
    /\ Len(sched_log) = 3
    /\ sched_log[1] # None
    /\ sched_log[2] # None
    /\ sched_log[3] = sched_log[1]
    /\ sched_log[2] # sched_log[1]
    /\ PROCESS_MANAGER.current_pid = sched_log[3]
    /\ DOMAIN turns[sched_log[3][1]] = {sched_log[2][1]}

\* C20: terminate on an existing pid sets that process to Terminated, removes
\* its id from the ready queue, and clears the current id only if it named
\* that process; the entry stays in the table, and the states and the
\* relative queue order of all other processes are unchanged.
C20_TerminateFrame ==
    [][\A pid \in 1..(MaxProcs + 1) :
          (/\ last'.op = "terminate_process"
           /\ last'.arg = <<pid>>
           /\ get_process(PROCESS_MANAGER, pid) # 0) =>
             LET pm == PROCESS_MANAGER
                 i == get_process(pm, pid)
             IN  /\ last'.ret = Ok(0)
                 /\ PROCESS_MANAGER'.processes =
                       [pm.processes EXCEPT ![i].state = "Terminated"]
                 /\ PROCESS_MANAGER'.ready_queue =
                       SelectSeq(pm.ready_queue, LAMBDA p : p # pid)
                 /\ PROCESS_MANAGER'.current_pid =
                       IF pm.current_pid = Some(pid) THEN None ELSE pm.current_pid
                 /\ PROCESS_MANAGER'.next_pid = pm.next_pid]_vars

\* a waiting process has just been terminated: it is the only Terminated one,
\* another process is still current and a third one is still waiting
C20_Witness ==
    /\ last.op = "terminate_process"
    /\ last.ret = Ok(0)
    /\ Len(Procs) = 3
    /\ \A i \in DOMAIN Procs :
          Procs[i].state = "Terminated" <=> Procs[i].pid = last.arg[1]
    /\ PROCESS_MANAGER.current_pid # None
    /\ Len(PROCESS_MANAGER.ready_queue) = 1

\* C21: terminate on a pid that was never issued returns an error and leaves
\* the process table, the ready queue and the current id unchanged.
C21_TerminateUnknown ==
    [][\A pid \in 1..(MaxProcs + 1) :
          (/\ last'.op = "terminate_process"
           /\ last'.arg = <<pid>>
           /\ pid \notin Range(pid_log)) =>
             /\ last'.ret = Err("Process not found")
             /\ PROCESS_MANAGER' = PROCESS_MANAGER]_vars

\* terminate has just failed while a process is current and another waits
C21_Witness ==
    /\ last.op = "terminate_process"
    /\ last.ret = Err("Process not found")
    /\ last.arg[1] \notin Range(pid_log)
    /\ PROCESS_MANAGER.current_pid # None
    /\ PROCESS_MANAGER.ready_queue # <<>>

\* C22, as stated: every change of a process's state is one of Ready to
\* Running (by schedule, also the one exit makes), Running to Ready (by
\* schedule), or Running to Terminated (by terminate or exit); no other
\* state transition ever occurs.
C22_ThreeTransitions ==
    [][\A i \in DOMAIN Procs :
          LET a == Procs[i].state
              b == PROCESS_MANAGER'.processes[i].state
          IN  a # b =>
                \/ a = "Ready" /\ b = "Running" /\ last'.op \in {"schedule", "exit"}
                \/ a = "Running" /\ b = "Ready" /\ last'.op = "schedule"
                \/ a = "Running" /\ b = "Terminated"
                      /\ last'.op \in {"terminate_process", "exit"}]_vars

\* C22, amended: every change of a process's state is one of Ready to Running
\* (by schedule), Running to Ready (by schedule), Running to Terminated (by
\* terminate or exit), or Ready to Terminated (by terminate, on a process
\* waiting in the ready queue); no other state transition ever occurs.
C22_FourTransitions ==
    [][\A i \in DOMAIN Procs :
          LET a == Procs[i].state
              b == PROCESS_MANAGER'.processes[i].state
          IN  a # b =>
                \/ a = "Ready" /\ b = "Running" /\ last'.op \in {"schedule", "exit"}
                \/ a = "Running" /\ b = "Ready" /\ last'.op = "schedule"
                \/ a = "Running" /\ b = "Terminated"
                      /\ last'.op \in {"terminate_process", "exit"}
                \/ a = "Ready" /\ b = "Terminated"
                      /\ last'.op = "terminate_process"
                      /\ Procs[i].pid \in Range(PROCESS_MANAGER.ready_queue)]_vars

\* a process has been terminated before schedule() was ever called: it went
\* from Ready to Terminated, while another one is still Ready
C22_Witness ==
    /\ last.op = "terminate_process"
    /\ last.ret = Ok(0)
    /\ ~sched_started
    /\ InState("Terminated") # {}
    /\ InState("Ready") # {}

\* C23: create_process inserts the new process in state Ready with an
\* all-zero register snapshot and appends its id at the back of the ready
\* queue, without changing the current id or the state or queue position of
\* any existing process.
C23_CreateFrame ==
    [][last'.op = "create_process" =>
          LET pm == PROCESS_MANAGER
              n == Len(pm.processes)
              new == PROCESS_MANAGER'.processes[n + 1]
          IN  /\ last'.ret = Ok(new.pid)
              /\ Len(PROCESS_MANAGER'.processes) = n + 1
              /\ SubSeq(PROCESS_MANAGER'.processes, 1, n) = pm.processes
              /\ new.state = "Ready"
              /\ new.registers = 0
              /\ new.entry_point = last'.arg[1]
              /\ get_process(pm, new.pid) = 0
              /\ PROCESS_MANAGER'.ready_queue = Append(pm.ready_queue, new.pid)
              /\ PROCESS_MANAGER'.current_pid = pm.current_pid]_vars

\* a process has just been created behind a waiting one while a third runs
C23_Witness ==
    /\ last.op = "create_process"
    /\ Len(Procs) = 3
    /\ PROCESS_MANAGER.current_pid # None
    /\ Len(PROCESS_MANAGER.ready_queue) = 2
    /\ PROCESS_MANAGER.ready_queue[2] = last.ret.val
    /\ Procs[3].pid = last.ret.val
    /\ Procs[3].state = "Ready"

\* C33: when the current process p issues exit, p becomes Terminated and is no
\* longer current, schedule is then invoked so that the front of the ready
\* queue (if any) becomes Running, and control never returns to the caller;
\* when there is no current process, exit terminates and schedules nothing and
\* still never returns.
C33_ExitTerminatesAndSchedules ==
    [][/\ last'.op = "exit" =>
             LET pm == PROCESS_MANAGER
                 pm2 == PROCESS_MANAGER'
             IN  /\ kernel' = "halted"
                 /\ pm.current_pid # None =>
                       LET p == pm.current_pid[1]
                       IN  /\ StateOf(pm2, p) = "Terminated"
                           /\ pm2.current_pid # Some(p)
                           /\ p \notin Range(pm2.ready_queue)
                           /\ IF pm.ready_queue # <<>>
                              THEN /\ StateOf(pm2, Head(pm.ready_queue)) = "Running"
                                   /\ pm2.current_pid = Some(Head(pm.ready_queue))
                                   /\ pm2.ready_queue = Tail(pm.ready_queue)
                              ELSE /\ pm2.current_pid = None
                                   /\ pm2.ready_queue = <<>>
                           /\ \A i \in DOMAIN Procs :
                                 (/\ Procs[i].pid # p
                                  /\ pm.ready_queue # <<>> => Procs[i].pid # Head(pm.ready_queue))
                                 => pm2.processes[i] = Procs[i]
                 /\ pm.current_pid = None =>
                       /\ pm2 = pm
                       /\ ttbr0' = ttbr0
       /\ kernel = "halted" => UNCHANGED <<PROCESS_MANAGER, ttbr0, kernel, last>>]_vars

\* exit by the running process has just handed the processor to the front of
\* the ready queue, with another process still waiting
C33_Witness ==
    /\ last.op = "exit"
    /\ kernel = "halted"
    /\ PROCESS_MANAGER.current_pid # None
    /\ StateOf(PROCESS_MANAGER, PROCESS_MANAGER.current_pid[1]) = "Running"
    /\ InState("Terminated") # {}
    /\ PROCESS_MANAGER.ready_queue # <<>>

\* C36: in every reachable state the ready queue contains each Ready process
\* exactly once and no process in any other state, and the current id is set
\* exactly when some process is Running and then names that process.
C36_QueueAndCurrent ==
    LET q == PROCESS_MANAGER.ready_queue
        current == PROCESS_MANAGER.current_pid
    IN  /\ \A i \in DOMAIN Procs :
              Cardinality({k \in DOMAIN q : q[k] = Procs[i].pid}) =
                 IF Procs[i].state = "Ready" THEN 1 ELSE 0
        /\ \A k \in DOMAIN q : \E i \in DOMAIN Procs : Procs[i].pid = q[k]
        /\ current # None <=> InState("Running") # {}
        /\ current # None =>
              /\ get_process(PROCESS_MANAGER, current[1]) # 0
              /\ StateOf(PROCESS_MANAGER, current[1]) = "Running"

\* one process runs, one waits in the queue and one is terminated
C36_Witness ==
    /\ PROCESS_MANAGER.current_pid # None
    /\ Len(PROCESS_MANAGER.ready_queue) = 1
    /\ Cardinality(InState("Ready")) = 1
    /\ InState("Terminated") # {}
    /\ last.op = "terminate_process"

\* kernel_main ends in `loop { .. process::schedule(); }` (main.rs:98-107):
\* while the kernel runs, schedule() is called again and again, so a call
\* that changes the process table is not put off for ever
SpecProcFair ==
    /\ Init
    /\ [][Spawn \/ Yield \/ Terminate \/ Exit]_vars
    /\ WF_PROCESS_MANAGER(/\ kernel = "running"
                          /\ PROCESS_MANAGER' =
                                process_schedule(PROCESS_MANAGER, ttbr0).pm)

\* C38: if schedule() is called infinitely often, every process that is Ready
\* and is never terminated eventually becomes Running, even while new
\* processes keep being created.  (After exit the kernel spins in wfe and
\* schedule() is not called again.)
C38_ReadyEventuallyRuns ==
    \A pid \in 1..MaxProcs :
        (get_process(PROCESS_MANAGER, pid) # 0 /\ StateOf(PROCESS_MANAGER, pid) = "Ready")
        ~> \/ /\ get_process(PROCESS_MANAGER, pid) # 0
              /\ StateOf(PROCESS_MANAGER, pid) \in {"Running", "Terminated"}
           \/ kernel = "halted"

\* the process created last runs after waiting behind the two created before it
C38_Witness ==
    /\ last.op = "schedule"
    /\ PROCESS_MANAGER.current_pid = Some(MaxProcs)
    /\ PROCESS_MANAGER.ready_queue = <<1, 2>>
    /\ turns # <<>>

----------------------------------------------------------------------------
(* ipc.rs entry points *)

\* what callers write: nothing, two different bytes, one byte short of the
\* capacity, more than the capacity
PipeInputs ==
    {<<>>, BCat(BRep(1, 1), BRep(2, 1)), BRep(3, PIPE_BUFFER_SIZE - 1),
     BRep(4, PIPE_BUFFER_SIZE + 904)}

\* the lengths of the buffers callers read into
ReadSizes == {0, 1, PIPE_BUFFER_SIZE}

\* the pipe ids callers name: every id issued so far and one never issued
PipeIds == 1..IPC_MANAGER.next_pipe_id

\* ipc::create_pipe: its effect on the tables and the histories
CreatePipeCall ==
    /\ LET r == IPCManager_create_pipe(IPC_MANAGER, FILE_SYSTEM)
           pipe_id == IPC_MANAGER.next_pipe_id
       IN  /\ IPC_MANAGER' = r.ipc
           /\ FILE_SYSTEM' = r.fs
           /\ fd_log' = fd_log \o r.ret.val
           /\ pipe_in' = MapInsert(pipe_in, pipe_id, <<>>)
           /\ pipe_out' = MapInsert(pipe_out, pipe_id, <<>>)
           /\ last' = Call("create_pipe", <<pipe_id>>, r.ret, <<>>,
                           \A i \in DOMAIN r.ret.val :
                               r.ret.val[i] \notin DOMAIN FILE_SYSTEM.open_files)
    /\ UNCHANGED <<procVars, memVars, kernel, closed_r, closed_w,
                   pipe_ops, fs_ops, nsys>>

CreatePipe ==
    /\ kernel = "running"
    /\ UNCHANGED lockVars
    /\ IPC_MANAGER.next_pipe_id <= MaxPipes
    /\ CreatePipeCall

WritePipe ==
    /\ kernel = "running"
    /\ UNCHANGED lockVars
    /\ pipe_ops < MaxPipeOps
    /\ \E pipe_id \in PipeIds, buf \in PipeInputs :
          LET r == IPCManager_write_pipe(IPC_MANAGER, pipe_id, buf)
          IN  /\ IPC_MANAGER' = r.ipc
              /\ pipe_in' = IF r.ret.ok
                            THEN Logged(pipe_in, Some(pipe_id), BTake(buf, r.ret.val))
                            ELSE pipe_in
              /\ pipe_ops' = IF r.ret.ok THEN pipe_ops + 1 ELSE pipe_ops
              /\ last' = Call("write_pipe", <<pipe_id, buf>>, r.ret, <<>>, TRUE)
    /\ UNCHANGED <<procVars, fsVars, memVars, kernel, pipe_out, closed_r,
                   closed_w, nsys>>

ReadPipe ==
    /\ kernel = "running"
    /\ UNCHANGED lockVars
    /\ pipe_ops < MaxPipeOps
    /\ \E pipe_id \in PipeIds, n \in ReadSizes :
          LET r == IPCManager_read_pipe(IPC_MANAGER, pipe_id, n)
          IN  /\ IPC_MANAGER' = r.ipc
              /\ pipe_out' = IF r.ret.ok
                             THEN Logged(pipe_out, Some(pipe_id), r.out)
                             ELSE pipe_out
              /\ pipe_ops' = IF r.ret.ok /\ r.ret.val > 0 THEN pipe_ops + 1 ELSE pipe_ops
              /\ last' = Call("read_pipe", <<pipe_id, n>>, r.ret, r.out, TRUE)
    /\ UNCHANGED <<procVars, fsVars, memVars, kernel, pipe_in, closed_r,
                   closed_w, nsys>>

ClosePipeRead ==
    /\ kernel = "running"
    /\ UNCHANGED lockVars
    /\ \E pipe_id \in PipeIds :
          LET r == IPCManager_close_pipe_read(IPC_MANAGER, pipe_id)
          IN  /\ IPC_MANAGER' = r.ipc
              /\ closed_r' = IF pipe_id < IPC_MANAGER.next_pipe_id
                             THEN closed_r \cup {pipe_id}
                             ELSE closed_r
              /\ last' = Call("close_pipe_read", <<pipe_id>>, r.ret, <<>>, TRUE)
    /\ UNCHANGED <<procVars, fsVars, memVars, kernel, pipe_in, pipe_out,
                   closed_w, pipe_ops, nsys>>

ClosePipeWrite ==
    /\ kernel = "running"
    /\ UNCHANGED lockVars
    /\ \E pipe_id \in PipeIds :
          LET r == IPCManager_close_pipe_write(IPC_MANAGER, pipe_id)
          IN  /\ IPC_MANAGER' = r.ipc
              /\ closed_w' = IF pipe_id < IPC_MANAGER.next_pipe_id
                             THEN closed_w \cup {pipe_id}
                             ELSE closed_w
              /\ last' = Call("close_pipe_write", <<pipe_id>>, r.ret, <<>>, TRUE)
    /\ UNCHANGED <<procVars, fsVars, memVars, kernel, pipe_in, pipe_out,
                   closed_r, pipe_ops, nsys>>

NextPipe == CreatePipe \/ WritePipe \/ ReadPipe \/ ClosePipeRead \/ ClosePipeWrite

SpecPipe == Init /\ [][NextPipe]_vars

----------------------------------------------------------------------------
(* Properties of the pipe registry, under SpecPipe.                        *)

Pipes == IPC_MANAGER.pipes

\* the pipe ids issued so far
IssuedPipeIds == 1..(IPC_MANAGER.next_pipe_id - 1)

\* C2: for each pipe, over any interleaving of writes and reads (short
\* writes and partial reads included), the bytes the reads returned, in the
\* order returned, are an initial segment of the bytes the writes accepted,
\* in the order accepted.
C2_ReadsPrefixOfWrites ==
    \A id \in DOMAIN pipe_in : BIsPrefix(pipe_out[id], pipe_in[id])

\* two one-byte reads have returned the two different bytes of one write
C2_Witness ==
    /\ last.op = "read_pipe"
    /\ last.ret = Ok(1)
    /\ \E id \in DOMAIN pipe_out : Len(pipe_out[id]) >= 2

\* C5: every pipe of the registry buffers at most PIPE_BUFFER_SIZE = 4096
\* bytes, whatever the sizes of the writes attempted.
C5_CapacityNeverExceeded ==
    \A id \in DOMAIN Pipes : BLen(Pipes[id].buffer) <= PIPE_BUFFER_SIZE

\* a write of more bytes than the capacity has just filled the pipe
C5_Witness ==
    /\ last.op = "write_pipe"
    /\ last.ret.ok
    /\ BLen(last.arg[2]) > PIPE_BUFFER_SIZE
    /\ BLen(Pipes[last.arg[1]].buffer) = PIPE_BUFFER_SIZE

\* C6: a pipe is in the registry exactly while at least one of its ends has
\* not been closed by close_pipe_read / close_pipe_write.
C6_PresentUntilBothClosed ==
    \A id \in IssuedPipeIds :
        (id \in DOMAIN Pipes) <=> ~(id \in closed_r /\ id \in closed_w)

\* closing the second end has just removed a pipe that still held bytes
C6_Witness ==
    /\ last.op = "close_pipe_write"
    /\ last.ret.ok
    /\ last.arg[1] \notin DOMAIN Pipes
    /\ pipe_in[last.arg[1]] # pipe_out[last.arg[1]]

\* a step of read_pipe on pipe id with a caller buffer of n bytes: every
\* call leaves its own name and arguments in last
ReadStep(id, n) ==
    /\ last'.op = "read_pipe"
    /\ last'.arg = <<id, n>>

\* C12: a read on a pipe whose read end is open, with b bytes buffered and a
\* caller buffer of length n, returns min(n, b) bytes taken from the front of
\* the buffer and removes exactly those; it returns 0 (end-of-stream) or
\* fails with WouldBlock only when b = 0, giving 0 if no writers remain and
\* WouldBlock otherwise.
C12_ReadTakesFront ==
    [][\A id \in DOMAIN Pipes, n \in ReadSizes :
          (ReadStep(id, n) /\ ~Pipes[id].read_closed) =>
             LET buffer == Pipes[id].buffer
                 b == BLen(buffer)
             IN  /\ b > 0 =>
                       /\ last'.ret = Ok(Min(n, b))
                       /\ last'.out = BTake(buffer, Min(n, b))
                       /\ Pipes'[id].buffer = BDrop(buffer, Min(n, b))
                 /\ b = 0 =>
                       /\ last'.ret = IF Pipes[id].writers = 0
                                      THEN Ok(0) ELSE Err("Would block")
                       /\ last'.out = <<>>
                       /\ Pipes'[id].buffer = buffer]_vars

\* a step of write_pipe of buf on pipe id
WriteStep(id, buf) ==
    /\ last'.op = "write_pipe"
    /\ last'.arg = <<id, buf>>

\* C13: a write of n bytes to a pipe whose write end is open and which has a
\* reader, with f = 4096 minus the buffered byte count, appends exactly the
\* first min(n, f) input bytes to the tail and returns min(n, f) when f > 0;
\* when f = 0 it fails with WouldBlock and leaves the buffer unchanged.
C13_WriteFillsTail ==
    [][\A id \in DOMAIN Pipes, buf \in PipeInputs :
          (WriteStep(id, buf) /\ ~Pipes[id].write_closed /\ Pipes[id].readers > 0) =>
             LET buffer == Pipes[id].buffer
                 f == PIPE_BUFFER_SIZE - BLen(buffer)
                 k == Min(BLen(buf), f)
             IN  /\ f > 0 =>
                       /\ last'.ret = Ok(k)
                       /\ Pipes'[id].buffer = BCat(buffer, BTake(buf, k))
                 /\ f = 0 =>
                       /\ last'.ret = Err("Would block")
                       /\ Pipes'[id].buffer = buffer]_vars

\* a write of two bytes has just been cut short to the one byte of space left
C13_Witness ==
    /\ last.op = "write_pipe"
    /\ BLen(last.arg[2]) = 2
    /\ last.ret = Ok(1)
    /\ BLen(Pipes[last.arg[1]].buffer) = PIPE_BUFFER_SIZE

\* C14: a write on a pipe whose write end has been closed fails with
\* ClosedEndpoint ("Pipe write end closed"), a write on a pipe with no readers
\* fails with BrokenPipe ("Broken pipe"), and a read on a pipe whose read end
\* has been closed fails with ClosedEndpoint ("Pipe read end closed"); each
\* such failure leaves the pipe's buffer, closed flags and reader/writer
\* counts unchanged.
C14_ClosedEndsFail ==
    [][\A id \in DOMAIN Pipes :
          /\ (last'.op = "write_pipe" /\ last'.arg[1] = id) =>
                /\ Pipes[id].write_closed =>
                      /\ last'.ret = Err("Pipe write end closed")
                      /\ Pipes' = Pipes
                /\ (~Pipes[id].write_closed /\ Pipes[id].readers = 0) =>
                      /\ last'.ret = Err("Broken pipe")
                      /\ Pipes' = Pipes
          /\ (last'.op = "read_pipe" /\ last'.arg[1] = id /\ Pipes[id].read_closed) =>
                /\ last'.ret = Err("Pipe read end closed")
                /\ Pipes' = Pipes]_vars

\* a write has just failed with "Broken pipe" on a pipe that still holds
\* bytes and whose read end was closed
C14_Witness ==
    /\ last.op = "write_pipe"
    /\ last.ret = Err("Broken pipe")
    /\ last.arg[1] \in DOMAIN Pipes
    /\ Pipes[last.arg[1]].buffer # <<>>
    /\ Pipes[last.arg[1]].read_closed

\* C15: after close_write on a pipe whose read end stays open, reads first
\* deliver every byte still buffered, in order, and from the moment the
\* buffer is empty every read returns 0 (end-of-stream) rather than an error.
\* In states: what was written is what was read followed by what is buffered.
\* In steps: a read of n bytes returns the first min(n, b) buffered bytes and
\* leaves the rest, which is 0 bytes once the buffer is empty.
C15_DrainThenEndOfStream ==
    /\ [](\A id \in DOMAIN Pipes :
             (Pipes[id].write_closed /\ ~Pipes[id].read_closed) =>
                pipe_in[id] = BCat(pipe_out[id], Pipes[id].buffer))
    /\ [][\A id \in DOMAIN Pipes, n \in ReadSizes :
             (ReadStep(id, n) /\ Pipes[id].write_closed /\ ~Pipes[id].read_closed) =>
                LET buffer == Pipes[id].buffer
                    k == Min(n, BLen(buffer))
                IN  /\ last'.ret = Ok(k)
                    /\ last'.out = BTake(buffer, k)
                    /\ Pipes'[id].buffer = BDrop(buffer, k)]_vars

\* after close_write the bytes written were read and a further read has just
\* returned 0
C15_Witness ==
    /\ last.op = "read_pipe"
    /\ last.ret = Ok(0)
    /\ last.arg[2] > 0
    /\ last.arg[1] \in closed_w
    /\ last.arg[1] \in DOMAIN Pipes
    /\ pipe_out[last.arg[1]] # <<>>
    /\ pipe_out[last.arg[1]] = pipe_in[last.arg[1]]

\* C37: for every pipe in the registry, the reader count is 0 or 1 and is 0
\* exactly when the read end is marked closed, the writer count is 0 or 1 and
\* is 0 exactly when the write end is marked closed, and the two ends are
\* never both marked closed.
C37_CountsFollowFlags ==
    \A id \in DOMAIN Pipes :
        /\ Pipes[id].readers \in {0, 1}
        /\ Pipes[id].readers = 0 <=> Pipes[id].read_closed
        /\ Pipes[id].writers \in {0, 1}
        /\ Pipes[id].writers = 0 <=> Pipes[id].write_closed
        /\ ~(Pipes[id].read_closed /\ Pipes[id].write_closed)

\* the read end of a pipe that holds bytes has just been closed, its write
\* end is open
C37_Witness ==
    /\ last.op = "close_pipe_read"
    /\ last.ret.ok
    /\ 1 \in DOMAIN Pipes
    /\ Pipes[1].read_closed /\ Pipes[1].readers = 0
    /\ ~Pipes[1].write_closed /\ Pipes[1].writers = 1
    /\ Pipes[1].buffer # <<>>

----------------------------------------------------------------------------
(* fs.rs entry points *)

\* the paths callers name: a regular file and the one device path
Paths == {"/tmp/x", "/dev/null"}

\* the flag words callers pass: read-only, create|write-only|truncate, and a
\* word with an undeclared bit
OpenFlagInputs == {O_RDONLY, O_CREAT + O_WRONLY + O_TRUNC, 4}

\* the descriptors callers name: standard input and output, the bound
\* descriptors past the standard ones, and the allocator's next number
FdInputs == {0, 1} \cup {fd \in DOMAIN FILE_SYSTEM.open_files : fd >= 3}
                   \cup {FILE_SYSTEM.next_fd}

\* the targets callers give dup2: standard output and the allocator's next number
Dup2Targets == {1, FILE_SYSTEM.next_fd}

\* what callers write to files
FileInputs == {<<>>, BRep(1, 1), BCat(BRep(2, 1), BRep(3, 1))}

\* the lengths of the buffers callers read files into
FileReadSizes == {0, 1, 4}

\* no file is longer than MaxFileLen
FilesWithin(fs) == \A path \in DOMAIN fs.files : BLen(fs.files[path]) <= MaxFileLen

\* fs::open, called with a flag word of the given set
OpenWith(flag_inputs) ==
    /\ kernel = "running"
    /\ UNCHANGED lockVars
    /\ fs_ops < MaxFsOps
    /\ FILE_SYSTEM.next_fd < MaxFds
    /\ \E path \in Paths, flags \in flag_inputs :
          LET r == FileSystem_open(FILE_SYSTEM, path, flags)
          IN  /\ FILE_SYSTEM' = r.fs
              /\ fd_log' = IF r.ret.ok THEN Append(fd_log, r.ret.val) ELSE fd_log
              /\ fs_ops' = IF r.ret.ok THEN fs_ops + 1 ELSE fs_ops
              /\ last' = Call("open", <<path, flags>>, r.ret, <<>>,
                              r.ret.ok => r.ret.val \notin DOMAIN FILE_SYSTEM.open_files)
    /\ UNCHANGED <<procVars, ipcVars, memVars, kernel, nsys>>

Open == OpenWith(OpenFlagInputs)

\* the flag words callers of the file store pass: those above and
\* write-only|append
FileFlagInputs == OpenFlagInputs \cup {O_WRONLY + O_APPEND}

OpenFile == OpenWith(FileFlagInputs)

\* fs::close: its effect on the tables and the histories
CloseCall(fd) ==
    /\ LET r == DescriptorOnly(FileSystem_close(FILE_SYSTEM, fd), IPC_MANAGER)
       IN  /\ FILE_SYSTEM' = r.fs
           /\ IPC_MANAGER' = r.ipc
           /\ fs_ops' = IF r.ret.ok THEN fs_ops + 1 ELSE fs_ops
           /\ last' = Call("close", <<fd>>, r.ret, <<>>, TRUE)
    /\ UNCHANGED <<procVars, pipe_in, pipe_out, closed_r, closed_w, pipe_ops,
                   memVars, kernel, fd_log, nsys>>

Close ==
    /\ kernel = "running"
    /\ UNCHANGED lockVars
    /\ fs_ops < MaxFsOps
    /\ \E fd \in FdInputs : CloseCall(fd)

Dup ==
    /\ kernel = "running"
    /\ UNCHANGED lockVars
    /\ fs_ops < MaxFsOps
    /\ FILE_SYSTEM.next_fd < MaxFds
    /\ \E fd \in FdInputs :
          LET r == DescriptorOnly(FileSystem_duplicate_fd(FILE_SYSTEM, fd),
                                  IPC_MANAGER)
          IN  /\ FILE_SYSTEM' = r.fs
              /\ IPC_MANAGER' = r.ipc
              /\ fd_log' = IF r.ret.ok THEN Append(fd_log, r.ret.val) ELSE fd_log
              /\ fs_ops' = IF r.ret.ok THEN fs_ops + 1 ELSE fs_ops
              /\ last' = Call("dup", <<fd>>, r.ret, <<>>,
                              r.ret.ok => r.ret.val \notin DOMAIN FILE_SYSTEM.open_files)
    /\ UNCHANGED <<procVars, pipe_in, pipe_out, closed_r, closed_w, pipe_ops,
                   memVars, kernel, nsys>>

Dup2 ==
    /\ kernel = "running"
    /\ UNCHANGED lockVars
    /\ fs_ops < MaxFsOps
    /\ \E oldfd \in FdInputs, newfd \in Dup2Targets :
          LET r == DescriptorOnly(
                      FileSystem_duplicate_fd_to(FILE_SYSTEM, oldfd, newfd),
                      IPC_MANAGER)
          IN  /\ FILE_SYSTEM' = r.fs
              /\ IPC_MANAGER' = r.ipc
              /\ fs_ops' = IF r.ret.ok THEN fs_ops + 1 ELSE fs_ops
              /\ last' = Call("dup2", <<oldfd, newfd>>, r.ret, <<>>, TRUE)
    /\ UNCHANGED <<procVars, pipe_in, pipe_out, closed_r, closed_w, pipe_ops,
                   memVars, kernel, fd_log, nsys>>

\* fs::read: its effect on the tables and the histories
ReadCall(fd, n, checks) ==
    /\ LET r == FileSystem_read(FILE_SYSTEM, IPC_MANAGER, fd, n, checks)
           p == PipeOf(FILE_SYSTEM, fd, "PipeRead")
       IN  /\ FILE_SYSTEM' = r.fs
           /\ IPC_MANAGER' = r.ipc
           /\ kernel' = IF r.panic THEN "panicked" ELSE kernel
           /\ pipe_out' = IF r.ret.ok THEN Logged(pipe_out, p, r.out) ELSE pipe_out
           /\ pipe_ops' = IF p # None /\ r.ret.ok /\ r.ret.val > 0
                          THEN pipe_ops + 1 ELSE pipe_ops
           /\ fs_ops' = IF r.ret.ok THEN fs_ops + 1 ELSE fs_ops
           /\ last' = Call("read", <<fd, n>>, r.ret, r.out, TRUE)
    /\ UNCHANGED <<procVars, memVars, fd_log, pipe_in, closed_r, closed_w,
                   nsys>>

Read ==
    /\ kernel = "running"
    /\ UNCHANGED lockVars
    /\ fs_ops < MaxFsOps
    /\ pipe_ops < MaxPipeOps
    /\ \E fd \in FdInputs, n \in FileReadSizes, checks \in BOOLEAN :
          ReadCall(fd, n, checks)

\* fs::write: its effect on the tables and the histories
WriteCall(fd, buf) ==
    /\ LET r == FileSystem_write(FILE_SYSTEM, IPC_MANAGER, fd, buf)
           p == PipeOf(FILE_SYSTEM, fd, "PipeWrite")
       IN  /\ FilesWithin(r.fs)
           /\ FILE_SYSTEM' = r.fs
           /\ IPC_MANAGER' = r.ipc
           /\ pipe_in' = IF r.ret.ok
                         THEN Logged(pipe_in, p, BTake(buf, r.ret.val))
                         ELSE pipe_in
           /\ pipe_ops' = IF p # None /\ r.ret.ok THEN pipe_ops + 1 ELSE pipe_ops
           /\ fs_ops' = IF r.ret.ok THEN fs_ops + 1 ELSE fs_ops
           /\ last' = Call("write", <<fd, buf>>, r.ret, <<>>, TRUE)
    /\ UNCHANGED <<procVars, memVars, kernel, fd_log, pipe_out, closed_r,
                   closed_w, nsys>>

Write ==
    /\ kernel = "running"
    /\ UNCHANGED lockVars
    /\ fs_ops < MaxFsOps
    /\ pipe_ops < MaxPipeOps
    /\ \E fd \in FdInputs, buf \in FileInputs : WriteCall(fd, buf)

RemoveFile ==
    /\ kernel = "running"
    /\ UNCHANGED lockVars
    /\ fs_ops < MaxFsOps
    /\ \E path \in Paths :
          LET r == remove_file(FILE_SYSTEM, path)
          IN  /\ FILE_SYSTEM' = r.fs
              /\ fs_ops' = IF r.ret.ok THEN fs_ops + 1 ELSE fs_ops
              /\ last' = Call("remove_file", <<path>>, r.ret, <<>>, TRUE)
    /\ UNCHANGED <<procVars, ipcVars, memVars, kernel, fd_log, nsys>>

\* the paths that name regular files
RegularPaths == Paths \ {"/dev/null"}

\* fs::create_file: the path holds an empty file afterwards, whatever it held
CreateFile ==
    /\ kernel = "running"
    /\ UNCHANGED lockVars
    /\ fs_ops < MaxFsOps
    /\ \E path \in RegularPaths :
          LET r == create_file(FILE_SYSTEM, path)
          IN  /\ FILE_SYSTEM' = r.fs
              /\ last' = Call("create_file", <<path>>, r.ret, <<>>, TRUE)
    /\ UNCHANGED <<procVars, ipcVars, memVars, kernel, fd_log, fs_ops, nsys>>

\* the sequence of file_round_trip_preserves_payload and of
\* file_create_write_read_remove_cycles: open with create|write-only|truncate,
\* write, close, reopen read-only, read into a buffer of n bytes, close
RoundTrip ==
    /\ kernel = "running"
    /\ UNCHANGED lockVars
    /\ fs_ops < MaxFsOps
    /\ FILE_SYSTEM.next_fd < MaxFds
    /\ \E path \in RegularPaths, payload \in FileInputs, n \in FileReadSizes :
       \E o1 \in {FileSystem_open(FILE_SYSTEM, path, O_CREAT + O_WRONLY + O_TRUNC)} :
       \E w  \in {FileSystem_write(o1.fs, IPC_MANAGER, o1.ret.val, payload)} :
       \E c1 \in {FileSystem_close(w.fs, o1.ret.val)} :
       \E o2 \in {FileSystem_open(c1.fs, path, O_RDONLY)} :
       \E r  \in {FileSystem_read(o2.fs, w.ipc, o2.ret.val, n, TRUE)} :
       \E c2 \in {FileSystem_close(r.fs, o2.ret.val)} :
          /\ n >= BLen(payload)
          /\ o1.ret.ok /\ w.ret.ok /\ c1.ret.ok /\ o2.ret.ok /\ r.ret.ok /\ c2.ret.ok
          /\ FilesWithin(c2.fs)
          /\ FILE_SYSTEM' = c2.fs
          /\ IPC_MANAGER' = r.ipc
          /\ fd_log' = fd_log \o <<o1.ret.val, o2.ret.val>>
          /\ fs_ops' = fs_ops + 1
          /\ last' = Call("round_trip", <<path, payload, n>>, r.ret, r.out, TRUE)
    /\ UNCHANGED <<procVars, memVars, kernel, pipe_in, pipe_out, closed_r,
                   closed_w, pipe_ops, nsys>>

NextFile ==
    OpenFile \/ Close \/ Read \/ Write \/ RemoveFile \/ CreateFile \/ RoundTrip

SpecFile == Init /\ [][NextFile]_vars

NextFd == Open \/ Close \/ Dup \/ Dup2 \/ CreatePipe

SpecFd == Init /\ [][NextFd]_vars

\* ipc::create_pipe, once more than in the other specifications: a pipe made
\* after an earlier one is gone
CreatePipeAfter ==
    /\ kernel = "running"
    /\ UNCHANGED lockVars
    /\ IPC_MANAGER.next_pipe_id <= MaxPipes + 1
    /\ CreatePipeCall

\* the descriptors bound to an end of a pipe
PipeFds ==
    {fd \in DOMAIN FILE_SYSTEM.open_files :
        FILE_SYSTEM.open_files[fd].file_type.kind \in {"PipeRead", "PipeWrite"}}

\* fs::read and fs::write on the descriptors of pipes and the standard ones
ReadFd ==
    /\ kernel = "running"
    /\ UNCHANGED lockVars
    /\ fs_ops < MaxFsOps
    /\ pipe_ops < MaxPipeOps
    /\ \E fd \in PipeFds \cup {0, 1, 2} : ReadCall(fd, 1, TRUE)

WriteFd ==
    /\ kernel = "running"
    /\ UNCHANGED lockVars
    /\ fs_ops < MaxFsOps
    /\ pipe_ops < MaxPipeOps
    /\ \E fd \in PipeFds \cup {0, 1, 2} : WriteCall(fd, BRep(1, 1))

\* pipes used through their descriptors and closed through their ids
NextPipeFd ==
    CreatePipeAfter \/ ReadFd \/ WriteFd \/ ClosePipeRead \/ ClosePipeWrite

SpecPipeFd == Init /\ [][NextPipeFd]_vars

\* the pipe ids whose two ends have been closed
BothEndsClosed == closed_r \cap closed_w

\* C16: once both ends of a pipe have been closed, every later read or write
\* through a descriptor of that pipe and every later close_read / close_write
\* on its id fails with an error, and the id is never issued to a new pipe:
\* it stays out of the registry and below the next id to issue.
C16_ClosedPipeIsGone ==
    /\ [](\A id \in BothEndsClosed :
             id \notin DOMAIN Pipes /\ id < IPC_MANAGER.next_pipe_id)
    /\ [][\A id \in BothEndsClosed :
             /\ (last'.op \in {"close_pipe_read", "close_pipe_write"}
                    /\ last'.arg = <<id>>) => ~last'.ret.ok
             /\ last'.op = "create_pipe" => last'.arg # <<id>>
             /\ \A fd \in DOMAIN FILE_SYSTEM.open_files :
                   /\ (last'.op = "read" /\ last'.arg[1] = fd
                         /\ PipeOf(FILE_SYSTEM, fd, "PipeRead") = Some(id))
                        => (~last'.ret.ok /\ last'.out = <<>>)
                   /\ (last'.op = "write" /\ last'.arg[1] = fd
                         /\ PipeOf(FILE_SYSTEM, fd, "PipeWrite") = Some(id))
                        => ~last'.ret.ok]_vars

\* pipe 1 is closed at both ends, a second pipe has been made, and a write
\* through the write descriptor of pipe 1 has just failed
C16_Witness ==
    /\ 1 \in BothEndsClosed
    /\ 2 \in DOMAIN Pipes
    /\ last.op = "write"
    /\ PipeOf(FILE_SYSTEM, last.arg[1], "PipeWrite") = Some(1)
    /\ last.ret = Err("Invalid pipe")

\* C30: a read on a descriptor bound to stdout, stderr or a pipe write end,
\* and a write on a descriptor bound to stdin or a pipe read end, fail with an
\* error and change neither the descriptor table, the file store nor any pipe.
C30_WrongDirection ==
    [][\A fd \in DOMAIN FILE_SYSTEM.open_files :
          LET ft == FILE_SYSTEM.open_files[fd].file_type
          IN  /\ (/\ last'.op = "read"
                  /\ last'.arg[1] = fd
                  /\ \/ ft.kind = "Device" /\ ft.dev \in {"Stdout", "Stderr"}
                     \/ ft.kind = "PipeWrite") =>
                    /\ last'.ret = Err("Cannot read from this file descriptor")
                    /\ last'.out = <<>>
                    /\ FILE_SYSTEM' = FILE_SYSTEM
                    /\ IPC_MANAGER' = IPC_MANAGER
              /\ (/\ last'.op = "write"
                  /\ last'.arg[1] = fd
                  /\ \/ ft.kind = "Device" /\ ft.dev = "Stdin"
                     \/ ft.kind = "PipeRead") =>
                    /\ last'.ret = Err("Cannot write to this file descriptor")
                    /\ FILE_SYSTEM' = FILE_SYSTEM
                    /\ IPC_MANAGER' = IPC_MANAGER]_vars

\* a write through the read descriptor of a pipe that holds bytes has just
\* failed
C30_Witness ==
    /\ last.op = "write"
    /\ last.ret = Err("Cannot write to this file descriptor")
    /\ PipeOf(FILE_SYSTEM, last.arg[1], "PipeRead") = Some(1)
    /\ 1 \in DOMAIN Pipes
    /\ Pipes[1].buffer # <<>>

\* C24: each create_pipe registers a new empty pipe with a fresh pipe id
\* larger than every earlier pipe id, reader count 1, writer count 1 and both
\* ends open, and returns two distinct descriptors it has bound, the first to
\* that pipe's read end and the second to its write end.  The pipes already
\* registered are left as they were.
C24_CreatePipe ==
    [][last'.op = "create_pipe" =>
          /\ last'.ret.ok
          /\ \E id \in DOMAIN Pipes' :
                /\ DOMAIN Pipes' = DOMAIN Pipes \cup {id}
                /\ id \notin DOMAIN Pipes
                /\ \A j \in DOMAIN pipe_in : j < id
                /\ \A j \in DOMAIN Pipes : Pipes'[j] = Pipes[j]
                /\ Pipes'[id].buffer = <<>>
                /\ Pipes'[id].readers = 1
                /\ Pipes'[id].writers = 1
                /\ ~Pipes'[id].read_closed
                /\ ~Pipes'[id].write_closed
                /\ Len(last'.ret.val) = 2
                /\ last'.ret.val[1] # last'.ret.val[2]
                /\ PipeOf(FILE_SYSTEM', last'.ret.val[1], "PipeRead") = Some(id)
                /\ PipeOf(FILE_SYSTEM', last'.ret.val[2], "PipeWrite") = Some(id)]_vars

\* a second pipe has just been created after the first one was used and
\* closed at both ends
C24_Witness ==
    /\ last.op = "create_pipe"
    /\ 1 \in BothEndsClosed
    /\ pipe_in[1] # <<>>
    /\ DOMAIN Pipes = {2}
    /\ Pipes[2].readers = 1
    /\ PipeOf(FILE_SYSTEM, last.ret.val[2], "PipeWrite") = Some(2)

----------------------------------------------------------------------------
(* memory.rs entry points *)

\* the sizes callers ask for: nothing, one byte, one page, one byte more, 2^63
\* bytes and usize::MAX (sys_mmap passes its length argument on unchecked,
\* syscall.rs:153)
AllocSizes ==
    {Wide(0), Wide(1), Wide(4096), Wide(4097), <<2^25, 0, 0>>,
     <<2^26 - 1, 2^26 - 1, 4095>>}

\* memory::allocate_pages, in a build that traps overflow and in one that
\* does not
AllocatePages ==
    /\ kernel = "running"
    /\ UNCHANGED lockVars
    /\ Len(alloc_log) < MaxAllocs
    /\ \E size \in AllocSizes, checks \in BOOLEAN :
          LET r == allocate_pages(PAGES_NEXT_ADDR, size, checks)
          IN  /\ PAGES_NEXT_ADDR' = r.next
              /\ kernel' = IF r.panic THEN "panicked" ELSE kernel
              /\ alloc_log' = IF r.panic THEN alloc_log
                              ELSE Append(alloc_log, [addr |-> r.ret.val, size |-> size])
              /\ last' = Call("allocate_pages", <<size>>, r.ret, <<>>, TRUE)
    /\ UNCHANGED <<procVars, ipcVars, fsVars, nsys>>

\* memory::deallocate_pages on a range handed out earlier
DeallocatePages ==
    /\ kernel = "running"
    /\ UNCHANGED lockVars
    /\ \E i \in DOMAIN alloc_log :
          last' = Call("deallocate_pages", <<alloc_log[i].addr, alloc_log[i].size>>,
                       deallocate_pages(alloc_log[i].addr, alloc_log[i].size),
                       <<>>, TRUE)
    /\ UNCHANGED <<procVars, ipcVars, fsVars, memVars, kernel, nsys>>

SpecMem == Init /\ [][AllocatePages \/ DeallocatePages]_vars

\* C34: successive allocate_pages calls return 4096-byte-aligned addresses,
\* and each returned address is at least the previously returned address plus
\* the previous request's size rounded up to whole pages, so allocated ranges
\* never overlap and are never handed out again after munmap.
C34_BumpNeverOverlaps ==
    \A i, j \in DOMAIN alloc_log :
        /\ alloc_log[i].addr[3] = 0
        /\ i < j => WideLeq(WideAdd(alloc_log[i].addr, RoundedUp(alloc_log[i].size)),
                            alloc_log[j].addr)

----------------------------------------------------------------------------
(* syscall.rs entry point *)

\* registers that a call does not read
NoArgs == Args(0, <<>>, 0, "", 0, 0, 0, 0)

\* numbers outside the 13 of the match in syscall_handler
UnknownInputs == {4, 61, 9999}

\* the lengths callers map
MapLengths == {0, 4097}

\* the calls made through the dispatcher: a number and its arguments; the
\* second argument word of dup2 is cast to i32 (syscall.rs:70), so a word with
\* the low 32 bits set names descriptor -1
SyscallInputs ==
    {<<SYS_READ, [NoArgs EXCEPT !.fd = fd, !.count = n]>> :
        fd \in FdInputs, n \in FileReadSizes}
    \cup {<<SYS_WRITE, [NoArgs EXCEPT !.fd = fd, !.buf = buf, !.count = BLen(buf)]>> :
        fd \in FdInputs, buf \in FileInputs}
    \cup {<<SYS_OPEN, [NoArgs EXCEPT !.path = path, !.flags = flags]>> :
        path \in Paths, flags \in OpenFlagInputs}
    \cup {<<num, [NoArgs EXCEPT !.fd = fd]>> :
        num \in {SYS_CLOSE, SYS_DUP}, fd \in FdInputs}
    \cup {<<SYS_DUP2, [NoArgs EXCEPT !.fd = fd, !.newfd = newfd]>> :
        fd \in FdInputs, newfd \in Dup2Targets \cup {-1}}
    \cup {<<SYS_EXECVE, [NoArgs EXCEPT !.entry = entry]>> : entry \in EntryPoints}
    \cup {<<SYS_MMAP, [NoArgs EXCEPT !.length = length]>> : length \in MapLengths}
    \cup {<<SYS_MUNMAP, [NoArgs EXCEPT !.fd = PAGES_NEXT_ADDR_INIT, !.length = length]>> :
        length \in MapLengths}
    \cup {<<num, NoArgs>> : num \in {SYS_EXIT, SYS_FORK, SYS_GETPID, SYS_PIPE}}
    \cup {<<num, [NoArgs EXCEPT !.fd = fd]>> : num \in UnknownInputs, fd \in {0, 3}}

\* the histories after a dispatcher call
SyscallFdLog(num, r) ==
    CASE num \in {SYS_OPEN, SYS_DUP} /\ r.ret # U64_MAX -> Append(fd_log, r.ret)
      [] num = SYS_PIPE /\ r.ret # U64_MAX -> fd_log \o r.out
      [] OTHER -> fd_log

SyscallPipeIn(num, a, r) ==
    CASE num = SYS_PIPE /\ r.ret # U64_MAX ->
            MapInsert(pipe_in, IPC_MANAGER.next_pipe_id, <<>>)
      [] num = SYS_WRITE /\ r.ret # U64_MAX ->
            Logged(pipe_in, PipeOf(FILE_SYSTEM, a.fd, "PipeWrite"), BTake(a.buf, r.ret))
      [] OTHER -> pipe_in

SyscallPipeOut(num, a, r) ==
    CASE num = SYS_PIPE /\ r.ret # U64_MAX ->
            MapInsert(pipe_out, IPC_MANAGER.next_pipe_id, <<>>)
      [] num = SYS_READ /\ r.ret # U64_MAX ->
            Logged(pipe_out, PipeOf(FILE_SYSTEM, a.fd, "PipeRead"), r.out)
      [] OTHER -> pipe_out

SyscallFresh(num, r) ==
    CASE num \in {SYS_OPEN, SYS_DUP} /\ r.ret # U64_MAX ->
            r.ret \notin DOMAIN FILE_SYSTEM.open_files
      [] num = SYS_PIPE /\ r.ret # U64_MAX ->
            \A i \in DOMAIN r.out : r.out[i] \notin DOMAIN FILE_SYSTEM.open_files
      [] OTHER -> TRUE

Syscall ==
    /\ kernel = "running"
    /\ UNCHANGED lockVars
    /\ nsys < MaxSyscalls
    /\ \E in \in SyscallInputs :
       \E checks \in IF in[1] = SYS_READ THEN BOOLEAN ELSE {TRUE} :
       \E r \in {syscall_handler(Kernel(PROCESS_MANAGER, NEXT_ADDR, ttbr0, IPC_MANAGER,
                                        FILE_SYSTEM, PAGES_NEXT_ADDR),
                                 in[1], in[2], checks)} :
          /\ FilesWithin(r.k.fs)
          /\ r.k.fs.next_fd <= MaxFds
          /\ r.k.ipc.next_pipe_id <= MaxPipes + 1
          /\ PROCESS_MANAGER' = r.k.pm
          /\ NEXT_ADDR' = r.k.proc_next
          /\ ttbr0' = r.k.ttbr0
          /\ IPC_MANAGER' = r.k.ipc
          /\ FILE_SYSTEM' = r.k.fs
          /\ PAGES_NEXT_ADDR' = r.k.pages_next
          /\ alloc_log' = IF in[1] = SYS_MMAP /\ r.stop = ""
                          THEN Append(alloc_log, [addr |-> PAGES_NEXT_ADDR,
                                                  size |-> Wide(in[2].length)])
                          ELSE alloc_log
          /\ kernel' = IF r.stop = "" THEN kernel ELSE r.stop
          /\ fd_log' = SyscallFdLog(in[1], r)
          /\ pipe_in' = SyscallPipeIn(in[1], in[2], r)
          /\ pipe_out' = SyscallPipeOut(in[1], in[2], r)
          /\ sched_log' = IF in[1] = SYS_EXIT THEN <<>> ELSE sched_log
          /\ sched_started' = (sched_started \/
                               (in[1] = SYS_EXIT /\ PROCESS_MANAGER.current_pid # None))
          /\ last' = Call("syscall", in, r.ret, r.out, SyscallFresh(in[1], r))
    /\ nsys' = nsys + 1
    /\ turns' = TurnsAfter(turns, PROCESS_MANAGER, PROCESS_MANAGER')
    /\ UNCHANGED <<pid_log, closed_r, closed_w, pipe_ops, fs_ops>>

Next == Syscall \/ Spawn

Spec == Init /\ [][Next]_vars

----------------------------------------------------------------------------
(* The Mutexes of the tables.  Every entry point of fs.rs and ipc.rs is    *)
(* `TABLE.lock().method(..)`: the guard lives until the method returns.    *)
(* A kernel context goes through a call in steps: it names the call,       *)
(* takes the Mutex of the entry point's table, takes the Mutex of the other *)
(* table where the method calls into the other module, and returns.  The   *)
(* tables change when the call returns; nothing else can see them before,  *)
(* because the Mutexes are held until then.                                *)

\* the descriptors the contexts use: standard output and the pipe ends
LockFds == {1} \cup {fd \in DOMAIN FILE_SYSTEM.open_files : fd >= 3}

\* the calls a context makes: the entry point, the descriptor and the buffer
LockCalls ==
    {[op |-> "create_pipe", pc |-> "enter", fd |-> 0, n |-> 0, buf |-> <<>>]}
    \cup {[op |-> "read", pc |-> "enter", fd |-> fd, n |-> 4, buf |-> <<>>] :
             fd \in LockFds}
    \cup {[op |-> "write", pc |-> "enter", fd |-> fd, n |-> 0, buf |-> BRep(1, 1)] :
             fd \in LockFds}

\* the table whose Mutex the entry point takes: ipc::create_pipe takes
\* IPC_MANAGER (ipc.rs:252); fs::read and fs::write take FILE_SYSTEM
OuterLock(op) == IF op = "create_pipe" THEN "IPC_MANAGER" ELSE "FILE_SYSTEM"

\* the table whose Mutex the method takes while the first is held, if any:
\* IPCManager::create_pipe calls fs::create_pipe_fds (ipc.rs:123);
\* FileSystem::read and FileSystem::write on a pipe end call ipc::read_pipe
\* (fs.rs:154) and ipc::write_pipe (fs.rs:192)
InnerLock(x) ==
    CASE x.op = "create_pipe" -> Some("FILE_SYSTEM")
      [] x.op = "read" /\ PipeOf(FILE_SYSTEM, x.fd, "PipeRead") # None ->
            Some("IPC_MANAGER")
      [] x.op = "write" /\ PipeOf(FILE_SYSTEM, x.fd, "PipeWrite") # None ->
            Some("IPC_MANAGER")
      [] OTHER -> None

\* the tables whose Mutex context c holds
Held(c) == {t \in DOMAIN locks : locks[t] = c}

\* a context starts a call
CallEnter ==
    /\ kernel = "running"
    /\ \E c \in Contexts, call \in LockCalls :
          /\ ctx[c].pc = "idle"
          /\ call.op = "create_pipe" => IPC_MANAGER.next_pipe_id <= MaxPipes + 1
          /\ call.op # "create_pipe" => fs_ops < MaxFsOps /\ pipe_ops < MaxPipeOps
          /\ ctx' = [ctx EXCEPT ![c] = call]
    /\ UNCHANGED <<procVars, ipcVars, fsVars, memVars, kernel, last, nsys,
                   locks>>

\* Mutex::lock of the entry point: spins until the Mutex is free
LockOuter ==
    /\ kernel = "running"
    /\ \E c \in Contexts :
          /\ ctx[c].pc = "enter"
          /\ locks[OuterLock(ctx[c].op)] = 0
          /\ locks' = [locks EXCEPT ![OuterLock(ctx[c].op)] = c]
          /\ ctx' = [ctx EXCEPT ![c].pc = "outer"]
    /\ UNCHANGED <<procVars, ipcVars, fsVars, memVars, kernel, last, nsys>>

\* Mutex::lock in the other module's entry point, called from the method
LockInner ==
    /\ kernel = "running"
    /\ \E c \in Contexts :
          /\ ctx[c].pc = "outer"
          /\ InnerLock(ctx[c]) # None
          /\ locks[InnerLock(ctx[c])[1]] = 0
          /\ locks' = [locks EXCEPT ![InnerLock(ctx[c])[1]] = c]
          /\ ctx' = [ctx EXCEPT ![c].pc = "inner"]
    /\ UNCHANGED <<procVars, ipcVars, fsVars, memVars, kernel, last, nsys>>

\* the method returns and the guards are dropped
CallReturn ==
    /\ kernel = "running"
    /\ \E c \in Contexts :
          /\ \/ ctx[c].pc = "inner"
             \/ ctx[c].pc = "outer" /\ InnerLock(ctx[c]) = None
          /\ CASE ctx[c].op = "create_pipe" -> CreatePipeCall
               [] ctx[c].op = "read" ->
                     \E checks \in BOOLEAN : ReadCall(ctx[c].fd, ctx[c].n, checks)
               [] ctx[c].op = "write" -> WriteCall(ctx[c].fd, ctx[c].buf)
          /\ locks' = [t \in DOMAIN locks |-> IF locks[t] = c THEN 0 ELSE locks[t]]
          /\ ctx' = [ctx EXCEPT ![c] = Idle]

NextLock == CallEnter \/ LockOuter \/ LockInner \/ CallReturn

SpecLock == Init /\ [][NextLock]_vars

\* each of two contexts holds the Mutex of one table and spins on the Mutex of
\* the other
Deadlocked ==
    \E c, d \in Contexts :
        /\ c # d
        /\ ctx[c].pc = "outer" /\ InnerLock(ctx[c]) # None
        /\ ctx[d].pc = "outer" /\ InnerLock(ctx[d]) # None
        /\ locks[InnerLock(ctx[c])[1]] = d
        /\ locks[InnerLock(ctx[d])[1]] = c

\* C35: with two kernel contexts concurrently executing table operations (for
\* example one in create_pipe and the other in a descriptor read or write on
\* a pipe end), no interleaving reaches a state in which each context waits
\* for a table lock held by the other; every started operation completes and
\* releases its locks.
C35_NoDeadlock == ~Deadlocked

\* C11: no operation holds more than one table's lock at a time: the
\* descriptor-table lock and the pipe-registry lock are never held
\* simultaneously by the same caller.
C11_OneLockAtATime == \A c \in Contexts : Cardinality(Held(c)) <= 1

----------------------------------------------------------------------------
(* descriptor table properties, under SpecFd *)

\* the calls that return newly allocated descriptors
Allocators == {"open", "dup", "create_pipe"}

\* the descriptors open, dup and create_pipe returned are at least 3 and
\* strictly increasing in the order returned
AllocatedIncrease ==
    /\ \A i \in DOMAIN fd_log : fd_log[i] >= 3
    /\ \A i, j \in DOMAIN fd_log : i < j => fd_log[i] < fd_log[j]

\* C9: across any sequence of open, close, dup, dup2 and create_pipe, every
\* descriptor returned by open, dup or create_pipe is at least 3, is greater
\* than every descriptor those operations returned earlier, and was not bound
\* in the open-file table at the moment it was returned.
C9_FreshIncreasingDescriptors ==
    /\ AllocatedIncrease
    /\ last.op \in Allocators => last.fresh

----------------------------------------------------------------------------
(* file store properties, under SpecFile *)

\* C25: open on a non-device path with the create flag and no file at that
\* path creates an empty file there; open without the create flag on a path
\* with no file fails, binds no descriptor and creates no file; every
\* successful open binds the returned descriptor with cursor offset 0.
C25_OpenCreates ==
    [][\A path \in Paths, flags \in FileFlagInputs :
          (last'.op = "open" /\ last'.arg = <<path, flags>>) =>
             LET fs == FILE_SYSTEM
                 absent == path # "/dev/null" /\ path \notin DOMAIN fs.files
             IN  /\ (absent /\ from_bits_ok(flags) /\ contains(flags, O_CREAT)) =>
                       /\ last'.ret.ok
                       /\ FILE_SYSTEM'.files = MapInsert(fs.files, path, <<>>)
                 /\ (absent /\ ~contains(flags, O_CREAT)) =>
                       /\ ~last'.ret.ok
                       /\ FILE_SYSTEM'.open_files = fs.open_files
                       /\ FILE_SYSTEM'.files = fs.files
                 /\ last'.ret.ok =>
                       /\ last'.ret.val \in DOMAIN FILE_SYSTEM'.open_files
                       /\ FILE_SYSTEM'.open_files[last'.ret.val].offset = 0
                       /\ FILE_SYSTEM'.open_files[last'.ret.val].fd = last'.ret.val
                       /\ \A fd \in DOMAIN fs.open_files \ {last'.ret.val} :
                             /\ fd \in DOMAIN FILE_SYSTEM'.open_files
                             /\ FILE_SYSTEM'.open_files[fd] = fs.open_files[fd]]_vars

\* an open without the create flag has just failed on a path whose file was
\* created by an earlier open and removed since
C25_Witness ==
    /\ last.op = "open"
    /\ last.arg = <<"/tmp/x", O_RDONLY>>
    /\ last.ret = Err("File not found")
    /\ fd_log # <<>>
    /\ "/tmp/x" \notin DOMAIN FILE_SYSTEM.files

\* C26: in every reachable state, a read on a regular-file descriptor with
\* cursor c on a file of length L returns the min(buffer length, L - c) bytes
\* starting at position c and advances the cursor by that count, and returns
\* 0 with the cursor unchanged whenever no bytes remain at or after the
\* cursor, including when the file at that path has been replaced by shorter
\* content since the descriptor was opened.
C26_ReadAtCursor ==
    [][\A fd \in DOMAIN FILE_SYSTEM.open_files, n \in FileReadSizes :
          (/\ last'.op = "read"
           /\ last'.arg = <<fd, n>>
           /\ FILE_SYSTEM.open_files[fd].file_type.kind = "Regular"
           /\ FILE_SYSTEM.open_files[fd].file_type.path \in DOMAIN FILE_SYSTEM.files) =>
             LET c == FILE_SYSTEM.open_files[fd].offset
                 file_data == FILE_SYSTEM.files[FILE_SYSTEM.open_files[fd].file_type.path]
                 L == BLen(file_data)
                 k == IF c >= L THEN 0 ELSE Min(n, L - c)
             IN  /\ kernel' = "running"
                 /\ last'.ret = Ok(k)
                 /\ last'.out = BTake(BDrop(file_data, c), k)
                 /\ FILE_SYSTEM' = [FILE_SYSTEM EXCEPT !.open_files[fd].offset = c + k]]_vars

\* C27: a write of n bytes on a regular-file descriptor with cursor c returns
\* n; without the append flag the bytes occupy positions c to c+n-1 of the
\* file, any gap between the old end of file and c is zero-filled, all other
\* bytes are unchanged and the cursor advances by n; with the append flag the
\* bytes are placed after the old end of file and all earlier content is
\* unchanged.  No other file and no other descriptor changes.
C27_WriteAtCursor ==
    [][\A fd \in DOMAIN FILE_SYSTEM.open_files, buf \in FileInputs :
          (/\ last'.op = "write"
           /\ last'.arg = <<fd, buf>>
           /\ FILE_SYSTEM.open_files[fd].file_type.kind = "Regular"
           /\ FILE_SYSTEM.open_files[fd].file_type.path \in DOMAIN FILE_SYSTEM.files) =>
             LET d == FILE_SYSTEM.open_files[fd]
                 path == d.file_type.path
                 c == d.offset
                 n == BLen(buf)
                 old == FILE_SYSTEM.files[path]
                 new == FILE_SYSTEM'.files[path]
                 L == BLen(old)
             IN  /\ last'.ret = Ok(n)
                 /\ DOMAIN FILE_SYSTEM'.files = DOMAIN FILE_SYSTEM.files
                 /\ \A q \in DOMAIN FILE_SYSTEM.files \ {path} :
                       FILE_SYSTEM'.files[q] = FILE_SYSTEM.files[q]
                 /\ DOMAIN FILE_SYSTEM'.open_files = DOMAIN FILE_SYSTEM.open_files
                 /\ \A g \in DOMAIN FILE_SYSTEM.open_files \ {fd} :
                       FILE_SYSTEM'.open_files[g] = FILE_SYSTEM.open_files[g]
                 /\ IF contains(d.flags, O_APPEND)
                    THEN /\ BLen(new) = L + n
                         /\ BTake(new, L) = old
                         /\ BDrop(new, L) = buf
                    ELSE /\ BLen(new) = IF c + n > L THEN c + n ELSE L
                         /\ BTake(BDrop(new, c), n) = buf
                         /\ BTake(new, Min(c, L)) = BTake(old, Min(c, L))
                         /\ c > L => BTake(BDrop(new, L), c - L) = BRep(0, c - L)
                         /\ BDrop(new, c + n) = BDrop(old, c + n)
                         /\ FILE_SYSTEM'.open_files[fd] = [d EXCEPT !.offset = c + n]]_vars

\* a write at a cursor past the end of the file has just left a zero byte in
\* the gap before the byte written
C27_Witness ==
    /\ last.op = "write"
    /\ last.ret = Ok(1)
    /\ "/tmp/x" \in DOMAIN FILE_SYSTEM.files
    /\ FILE_SYSTEM.files["/tmp/x"] = BCat(BRep(0, 1), BRep(1, 1))

\* C28: dup(fd) and dup2(old, new) on a bound source descriptor bind the
\* returned descriptor to the same target as the source and leave the source
\* bound (also when old = new); dup2 returns new after discarding any
\* previous binding of new; both fail on an unbound source and then change no
\* binding, including that of new.  No third descriptor changes.
C28_DupBinds ==
    [][LET of == FILE_SYSTEM.open_files
           of2 == FILE_SYSTEM'.open_files
           Bound(src, new) ==
               /\ last'.ret = Ok(new)
               /\ DOMAIN of2 = DOMAIN of \cup {new}
               /\ of2[new].file_type = of[src].file_type
               /\ of2[new].fd = new
               /\ of2[src].file_type = of[src].file_type
               /\ \A g \in DOMAIN of \ {new} : of2[g] = of[g]
       IN  /\ \A fd \in FdInputs :
                 (last'.op = "dup" /\ last'.arg = <<fd>>) =>
                    IF fd \in DOMAIN of
                    THEN Bound(fd, FILE_SYSTEM.next_fd)
                    ELSE ~last'.ret.ok /\ of2 = of
           /\ \A oldfd \in FdInputs, newfd \in Dup2Targets :
                 (last'.op = "dup2" /\ last'.arg = <<oldfd, newfd>>) =>
                    IF oldfd \in DOMAIN of
                    THEN Bound(oldfd, newfd)
                    ELSE ~last'.ret.ok /\ of2 = of]_vars

\* dup2 onto standard output has just replaced its binding by one to a pipe
\* end or a file
C28_Witness ==
    /\ last.op = "dup2"
    /\ last.ret = Ok(1)
    /\ last.arg[1] # 1
    /\ FILE_SYSTEM.open_files[1].file_type.kind # "Device"
    /\ last.arg[1] \in DOMAIN FILE_SYSTEM.open_files
    /\ FILE_SYSTEM.open_files[last.arg[1]].file_type = FILE_SYSTEM.open_files[1].file_type

C31_CloseUnbinds ==
    [][\A fd \in FdInputs :
          /\ (last'.op = "close" /\ last'.arg = <<fd>>) =>
                LET fs2 == FILE_SYSTEM'
                    ipc2 == IPC_MANAGER'
                    invalid == Err("Invalid file descriptor")
                IN  /\ last'.ret.ok <=> fd \in DOMAIN FILE_SYSTEM.open_files
                    /\ fd \notin DOMAIN fs2.open_files
                    /\ \A n \in FileReadSizes, checks \in BOOLEAN :
                          FileSystem_read(fs2, ipc2, fd, n, checks).ret = invalid
                    /\ \A buf \in FileInputs :
                          FileSystem_write(fs2, ipc2, fd, buf).ret = invalid
                    /\ FileSystem_duplicate_fd(fs2, fd).ret = invalid
                    /\ FileSystem_close(fs2, fd).ret = invalid
                    /\ \A other \in DOMAIN FILE_SYSTEM.open_files \ {fd} :
                          /\ other \in DOMAIN fs2.open_files
                          /\ fs2.open_files[other] = FILE_SYSTEM.open_files[other]
                    /\ DOMAIN fs2.open_files \subseteq DOMAIN FILE_SYSTEM.open_files
          /\ (/\ last'.op \in {"read", "write", "dup", "close"}
              /\ last'.arg[1] = fd
              /\ fd \notin DOMAIN FILE_SYSTEM.open_files) =>
                /\ last'.ret = Err("Invalid file descriptor")
                /\ FILE_SYSTEM' = FILE_SYSTEM]_vars

\* standard input has just been closed while a descriptor of a regular file
\* with an advanced cursor stays bound
C31_Witness ==
    /\ last.op = "close"
    /\ last.arg = <<0>>
    /\ last.ret = Ok(0)
    /\ 0 \notin DOMAIN FILE_SYSTEM.open_files
    /\ \E other \in DOMAIN FILE_SYSTEM.open_files :
          /\ FILE_SYSTEM.open_files[other].file_type.kind = "Regular"
          /\ FILE_SYSTEM.open_files[other].offset > 0

\* C39: an open call that fails (invalid flag bits, or a missing file
\* without the create flag) leaves the descriptor table unchanged, including
\* the descriptor number that the next successful open, dup or create_pipe
\* will return, and leaves the file store unchanged.
C39_FailedOpenNoEffect ==
    [][(last'.op = "open" /\ ~last'.ret.ok) =>
          /\ FILE_SYSTEM'.open_files = FILE_SYSTEM.open_files
          /\ FILE_SYSTEM'.files = FILE_SYSTEM.files
          /\ FILE_SYSTEM'.next_fd = FILE_SYSTEM.next_fd
          /\ \A path \in Paths :
                FileSystem_open(FILE_SYSTEM', path, O_CREAT + O_WRONLY + O_TRUNC).ret
                   = FileSystem_open(FILE_SYSTEM, path, O_CREAT + O_WRONLY + O_TRUNC).ret
          /\ FileSystem_duplicate_fd(FILE_SYSTEM', 0).ret
                = FileSystem_duplicate_fd(FILE_SYSTEM, 0).ret]_vars

\* files used through several descriptors: opened, duplicated, read and written
SpecCursor == Init /\ [][OpenFile \/ Dup \/ Dup2 \/ Read \/ Write]_vars

\* the descriptors bound to a regular file
RegularFds(fs) ==
    {fd \in DOMAIN fs.open_files : fs.open_files[fd].file_type.kind = "Regular"}

\* from fs to fs2 every descriptor but fd stays bound with the offset it had
CursorsKept(fs, fs2, fd) ==
    \A other \in DOMAIN fs.open_files \ {fd} :
        /\ other \in DOMAIN fs2.open_files
        /\ fs2.open_files[other].offset = fs.open_files[other].offset

\* a read or a write through any regular-file descriptor of fs moves no
\* other descriptor's offset
CursorsPrivate(fs, ipc) ==
    \A fd \in RegularFds(fs) :
        /\ \A n \in FileReadSizes, checks \in BOOLEAN :
              CursorsKept(fs, FileSystem_read(fs, ipc, fd, n, checks).fs, fd)
        /\ \A buf \in FileInputs :
              CursorsKept(fs, FileSystem_write(fs, ipc, fd, buf).fs, fd)

\* C40: each regular-file descriptor has its own cursor: a descriptor created
\* by dup or dup2 starts at the source's cursor value at duplication time,
\* and afterwards a read or write through one descriptor never changes the
\* cursor of any other descriptor.
C40_PrivateCursors ==
    [][/\ \A fd \in RegularFds(FILE_SYSTEM) :
             (last'.op \in {"dup", "dup2"} /\ last'.arg[1] = fd /\ last'.ret.ok) =>
                LET new_fd == last'.ret.val
                IN  /\ new_fd \in RegularFds(FILE_SYSTEM')
                    /\ FILE_SYSTEM'.open_files[new_fd].offset
                          = FILE_SYSTEM.open_files[fd].offset
                    /\ FILE_SYSTEM'.open_files[new_fd].file_type
                          = FILE_SYSTEM.open_files[fd].file_type
                    /\ FILE_SYSTEM'.open_files[fd].offset
                          = FILE_SYSTEM.open_files[fd].offset
                    /\ CursorsKept(FILE_SYSTEM, FILE_SYSTEM', new_fd)
                    /\ CursorsPrivate(FILE_SYSTEM', IPC_MANAGER')
       /\ (last'.op \in {"read", "write"}
           /\ last'.arg[1] \in RegularFds(FILE_SYSTEM)) =>
             CursorsKept(FILE_SYSTEM, FILE_SYSTEM', last'.arg[1])]_vars

\* a descriptor of a file read or written past its start has been duplicated
C40_Witness ==
    /\ last.op = "dup"
    /\ last.ret.ok
    /\ last.arg[1] \in RegularFds(FILE_SYSTEM)
    /\ last.ret.val \in RegularFds(FILE_SYSTEM)
    /\ last.ret.val # last.arg[1]
    /\ FILE_SYSTEM.open_files[last.arg[1]].offset > 0
    /\ FILE_SYSTEM.open_files[last.ret.val].offset
          = FILE_SYSTEM.open_files[last.arg[1]].offset

\* C8: for any byte string and every reachable prior state of the file store,
\* opening a regular-file path with create|write-only|truncate, writing the
\* bytes, closing, reopening read-only and reading into a buffer at least as
\* long returns exactly the written length and exactly the written bytes.
C8_RoundTripExact ==
    last.op = "round_trip" =>
        /\ last.ret = Ok(BLen(last.arg[2]))
        /\ last.out = last.arg[2]

----------------------------------------------------------------------------
(* dispatcher properties, under Spec *)

\* the tables a dispatcher call can reach
Tables ==
    <<PROCESS_MANAGER.processes, PROCESS_MANAGER.ready_queue, IPC_MANAGER.pipes,
      FILE_SYSTEM.open_files, FILE_SYSTEM.files>>

\* C10: for every syscall number other than the 13 known ones, syscall_handler
\* returns the all-ones word and leaves the process table, ready queue, pipe
\* registry, descriptor table and file store unchanged.
C10_UnknownSyscallNoEffect ==
    [][(nsys' = nsys + 1 /\ last'.arg[1] \notin KnownSyscalls) =>
          /\ last'.ret = U64_MAX
          /\ Tables' = Tables]_vars

\* an unknown number has just been dispatched with a process in the ready
\* queue and a pipe and its two descriptors in the tables
C10_Witness ==
    /\ last.op = "syscall"
    /\ last.arg[1] \notin KnownSyscalls
    /\ last.ret = U64_MAX
    /\ PROCESS_MANAGER.processes # <<>>
    /\ PROCESS_MANAGER.ready_queue # <<>>
    /\ DOMAIN IPC_MANAGER.pipes # {}
    /\ Cardinality(DOMAIN FILE_SYSTEM.open_files) = 5

\* C32: for read, write, open, close, pipe, dup and dup2 and for all argument
\* values, the dispatcher returns the all-ones word if and only if the
\* underlying table operation failed; on success it returns the operation's
\* result (byte count, descriptor number, or 0), so a successful dup2 returns
\* newfd.
C32_SentinelIffFailed ==
    [][(/\ nsys' = nsys + 1
        /\ kernel' = "running"
        /\ last'.arg[1] \in {SYS_READ, SYS_WRITE, SYS_OPEN, SYS_CLOSE, SYS_PIPE,
                             SYS_DUP, SYS_DUP2}) =>
          LET num == last'.arg[1]
              a == last'.arg[2]
              fs == FILE_SYSTEM
              ipc == IPC_MANAGER
              res == CASE num = SYS_READ ->
                             FileSystem_read(fs, ipc, a.fd, a.count, FALSE).ret
                        [] num = SYS_WRITE ->
                             FileSystem_write(fs, ipc, a.fd, BTake(a.buf, a.count)).ret
                        [] num = SYS_OPEN -> FileSystem_open(fs, a.path, a.flags).ret
                        [] num = SYS_CLOSE -> FileSystem_close(fs, a.fd).ret
                        [] num = SYS_PIPE -> IPCManager_create_pipe(ipc, fs).ret
                        [] num = SYS_DUP -> FileSystem_duplicate_fd(fs, a.fd).ret
                        [] num = SYS_DUP2 ->
                             FileSystem_duplicate_fd_to(fs, a.fd, a.newfd).ret
          IN  /\ last'.ret = U64_MAX <=> ~res.ok
              /\ res.ok =>
                    CASE num \in {SYS_CLOSE, SYS_PIPE} -> last'.ret = 0
                      [] num = SYS_DUP2 -> last'.ret = a.newfd
                      [] OTHER -> last'.ret = res.val]_vars

============================================================================
